---- MODULE Spec2Model ----
(***************************************************************************)
(* Verification model of the Nova Prophet supply-chain analysis engine:    *)
(* the SupplyChainAnalyzer queries (veritas), the ScenarioModeler and the  *)
(* geopolitical / shortage modelers, the impact calculator and the         *)
(* recommendation rules.                                                   *)
(*                                                                         *)
(* Numbers.  Scores are kept as integers in the unit of their rounding:    *)
(* resilience scores and factor scores in tenths (round(x, 1)),            *)
(* criticality scores and price percentages in hundredths (round(x, 2)).   *)
(* Arithmetic is exact (rational); round() resolves an exact tie to the    *)
(* even neighbour as Python does for a representable tie, except for the   *)
(* criticality score, whose twelve tie cases follow the IEEE-754 sum the   *)
(* code computes (see FloatSumBelowTie).                                   *)
(***************************************************************************)
EXTENDS Integers, Sequences, FiniteSets, TLC

(***************************************************************************)
(* Bounds of the model                                                     *)
(***************************************************************************)
MaxSuppliers == 5

(***************************************************************************)
(* The node universe.  Node ids are strings; networkx iterates nodes and   *)
(* edges in insertion order, which is the order of these sequences.        *)
(***************************************************************************)
NoneId == "None"
CompanyOrder == <<"co1", "co2">>
SupplierOrder == <<"s1", "s2", "s3", "s4", "s5", "s6">>
ProductOrder == <<"p1", "p2">>
ComponentOrder == <<"c1", "c2", "c3", "c4", "c5", "c6">>
CountryOrder == <<"country_china", "country_vietnam", "country_japan">>

Range(s) == {s[i] : i \in 1..Len(s)}
Companies == Range(CompanyOrder)
AllSuppliers == Range(SupplierOrder)
Products == Range(ProductOrder)
Components == Range(ComponentOrder)
CountryIds == Range(CountryOrder)

\* the 'name' attribute of a country node
CountryName(id) ==
  CASE id = "country_china" -> "China"
    [] id = "country_vietnam" -> "Vietnam"
    [] id = "country_japan" -> "Japan"
    [] OTHER -> "Unknown"

\* node_data.get('node_type')
NodeType(n) ==
  CASE n \in Products -> "product"
    [] n \in Components -> "component"
    [] n \in CountryIds -> "country"
    [] n \in Companies \cup AllSuppliers -> "company"
    [] OTHER -> "unknown"

(***************************************************************************)
(* Arithmetic helpers                                                      *)
(***************************************************************************)
\* a dampening that never caps
MinUncapped(a, b) == a
Min(a, b) == IF a <= b THEN a ELSE b
Max(a, b) == IF a >= b THEN a ELSE b

\* round(n / d) for n >= 0, d > 0, an exact tie going to the even neighbour
RoundDiv(n, d) ==
  LET q == n \div d
      r == n % d
  IN  IF 2 * r > d THEN q + 1
      ELSE IF 2 * r < d THEN q
      ELSE IF q % 2 = 0 THEN q ELSE q + 1

\* the members of set S in the order of sequence order
OrderedSeq(S, order) == SelectSeq(order, LAMBDA x : x \in S)

\* list.sort(key=..., reverse=True): descending by key and stable, i.e. element
\* i precedes element j when its key is larger, or equal with i < j
SortDesc(s, key(_)) ==
  LET before(i) == {j \in 1..Len(s) :
                      \/ key(s[j]) > key(s[i])
                      \/ key(s[j]) = key(s[i]) /\ j < i}
  IN  [k \in 1..Len(s) |-> s[CHOOSE i \in 1..Len(s) : Cardinality(before(i)) = k - 1]]

\* sum(f(x) for x in s)
SumSeq(s, f(_)) ==
  LET acc[n \in 0..Len(s)] == IF n = 0 THEN 0 ELSE acc[n - 1] + f(s[n])
  IN  acc[Len(s)]

\* concatenation of f(s[1]), f(s[2]), ...
FlatMap(s, f(_)) ==
  LET acc[n \in 0..Len(s)] == IF n = 0 THEN <<>> ELSE acc[n - 1] \o f(s[n])
  IN  acc[Len(s)]

(***************************************************************************)
(* Graph model: a networkx DiGraph with typed nodes and typed edges.       *)
(*   nodes        the node ids present                                     *)
(*   critical, tariff_vulnerable, category     component attributes        *)
(*   supply_constrained, affected_by_event, event_impact_level,            *)
(*   affected_by_shortage, shortage_level      transient scenario flags    *)
(*   contains, supplies, originates, manufactures   edges by type          *)
(* An absent boolean attribute reads as FALSE (node_data.get(k, False)).   *)
(***************************************************************************)
NoLevel == "unset"

MkGraph(nodes, critical, tariff, category, contains, supplies, originates, manufactures) ==
  [nodes |-> nodes,
   critical |-> critical,
   tariff_vulnerable |-> tariff,
   category |-> category,
   supply_constrained |-> [c \in Components |-> FALSE],
   affected_by_event |-> [c \in Components |-> FALSE],
   event_impact_level |-> [c \in Components |-> NoLevel],
   affected_by_shortage |-> [c \in Components |-> FALSE],
   shortage_level |-> [c \in Components |-> NoLevel],
   contains |-> contains,
   supplies |-> supplies,
   originates |-> originates,
   manufactures |-> manufactures]

\* copy.deepcopy(graph): a new object with equal content
deepcopy(G) == G

ComponentNodes(G) == OrderedSeq(G.nodes \cap Components, ComponentOrder)
ProductNodes(G) == OrderedSeq(G.nodes \cap Products, ProductOrder)

\* sources of the SUPPLIES in-edges of a component
SuppliersOf(G, c) == {s \in AllSuppliers : <<s, c>> \in G.supplies}
\* sources of the CONTAINS in-edges of a component, in edge order
ProductsUsing(G, c) == OrderedSeq({p \in Products : <<p, c>> \in G.contains}, ProductOrder)
\* targets of the CONTAINS out-edges of a product, in edge order
ComponentsOf(G, p) == OrderedSeq({c \in Components : <<p, c>> \in G.contains}, ComponentOrder)
\* targets of the MANUFACTURES out-edges of a company (none for an unknown id)
ManufacturedBy(G, co) == OrderedSeq({p \in Products : <<co, p>> \in G.manufactures}, ProductOrder)

\* _get_component_countries / utils.get_component_countries: country names
get_component_countries(G, c) ==
  LET ids == OrderedSeq({k \in CountryIds : <<c, k>> \in G.originates}, CountryOrder)
  IN  [i \in 1..Len(ids) |-> CountryName(ids[i])]

(***************************************************************************)
(* SupplyChainAnalyzer (veritas): read-only queries over a graph           *)
(***************************************************************************)
\* weighted factor terms of the criticality score in units of 0.0001
CriticalTerm(critical) == IF critical THEN 4000 ELSE 1200       \* 0.4 * (1.0 | 0.3)
TariffTerm(tv) == IF tv THEN 2000 ELSE 1000                     \* 0.25 * (0.8 | 0.4)
SupplierTermSwapped(n) ==
  IF n = 0 THEN 400 ELSE IF n = 1 THEN 1200 ELSE IF n <= 3 THEN 1800 ELSE 2000
SupplierTerm(n) ==                                              \* 0.2 * band
  IF n = 0 THEN 2000 ELSE IF n = 1 THEN 1800 ELSE IF n <= 3 THEN 1200 ELSE 400
CountryTerm(n) ==                                               \* 0.15 * band
  IF n = 1 THEN 1200 ELSE IF n = 2 THEN 750 ELSE 300

\* The weighted sum ends in ...50 exactly when the component has two origin
\* countries; the binary floating-point sum then lies just below the tie for
\* these (critical, tariff_vulnerable, supplier term) and round(x, 2) goes down.
FloatSumBelowTie(critical, tv, supplierTerm) ==
  <<critical, tv, supplierTerm>> \in
    {<<FALSE, FALSE, 1200>>, <<FALSE, TRUE, 2000>>, <<FALSE, TRUE, 1800>>,
     <<FALSE, TRUE, 400>>, <<TRUE, FALSE, 2000>>, <<TRUE, FALSE, 1200>>,
     <<TRUE, FALSE, 400>>}

\* weighted score of the four factors, rounded to 2 decimals (in hundredths)
CriticalityScore(critical, tv, nSuppliers, nCountries) ==
  LET sum == CriticalTerm(critical) + TariffTerm(tv)
             + SupplierTerm(nSuppliers) + CountryTerm(nCountries)
      q == sum \div 100
      r == sum % 100
  IN  IF r > 50 THEN q + 1
      ELSE IF r < 50 THEN q
      ELSE IF FloatSumBelowTie(critical, tv, SupplierTerm(nSuppliers)) THEN q ELSE q + 1

\* SupplyChainAnalyzer._calculate_component_criticality (product_id is unused)
calculate_component_criticality(G, c) ==
  CriticalityScore(G.critical[c], G.tariff_vulnerable[c],
                   Cardinality(SuppliersOf(G, c)), Len(get_component_countries(G, c)))

\* the products a query analyses: the company's MANUFACTURES targets when a
\* company id is given, else every product node
ProductsToAnalyze(G, company_id) ==
  IF company_id # NoneId THEN ManufacturedBy(G, company_id) ELSE ProductNodes(G)

\* one record per CONTAINS out-edge of product p, in edge order
CriticalRecordsOf(G, p) ==
  LET cs == ComponentsOf(G, p)
  IN  [i \in 1..Len(cs) |->
        [component_id |-> cs[i],
         product_id |-> p,
         criticality_score |-> calculate_component_criticality(G, cs[i]),
         tariff_vulnerable |-> G.tariff_vulnerable[cs[i]],
         suppliers |-> OrderedSeq(SuppliersOf(G, cs[i]), SupplierOrder),
         countries |-> get_component_countries(G, cs[i])]]

\* a key that sorts the lowest score first
RecordScoreAscending(r) == 0 - r.criticality_score

\* the sort key of find_critical_components (reverse=True: highest first)
RecordScore(r) == r.criticality_score

\* SupplyChainAnalyzer.find_critical_components; threshold in hundredths
find_critical_components(G, manufacturer_id, threshold) ==
  LET discovered == FlatMap(ProductsToAnalyze(G, manufacturer_id),
                            LAMBDA p : CriticalRecordsOf(G, p))
      kept == SelectSeq(discovered, LAMBDA r : r.criticality_score >= threshold)
  IN  SortDesc(kept, RecordScore)

ZeroFactors ==
  [supplier_diversity |-> [score |-> 0, weight |-> 25],
   geographical_diversity |-> [score |-> 0, weight |-> 20],
   component_criticality |-> [score |-> 0, weight |-> 30],
   tariff_vulnerability |-> [score |-> 0, weight |-> 15],
   alternative_sources |-> [score |-> 0, weight |-> 10]]

\* the early return of calculate_resilience_score when no product is found
NoProductsResult == [total_resilience_score |-> 0, factors |-> ZeroFactors]

\* a score whose single-supplier metric counts exactly-one-supplier pairs only
calculate_resilience_score_exactly_one(G, company_id) ==
  LET products == ProductsToAnalyze(G, company_id)
      pairs == {e \in G.contains : e[1] \in Range(products)}
      comps == {e[2] : e \in pairs}
      total_components == Cardinality(pairs)
      unique_suppliers == UNION {SuppliersOf(G, c) : c \in comps}
      unique_countries == UNION {Range(get_component_countries(G, c)) : c \in comps}
      critical_components == Cardinality({e \in pairs : G.critical[e[2]]})
      tariff_vulnerable_components == Cardinality({e \in pairs : G.tariff_vulnerable[e[2]]})
      single_supplier_components ==
        Cardinality({e \in pairs : Cardinality(SuppliersOf(G, e[2])) = 1})
      T == Max(1, total_components)
      sd == Min(100 * T, Max(0, 50 * Cardinality(unique_suppliers)))
      gd == Min(100 * T, Max(0, 60 * Cardinality(unique_countries)))
      cc == Min(100 * T, Max(0, 100 * T - 100 * critical_components))
      tv == Min(100 * T, Max(0, 100 * T - 100 * tariff_vulnerable_components))
      as == Min(100 * T, Max(0, 100 * T - 100 * single_supplier_components))
      N == 25 * sd + 20 * gd + 30 * cc + 15 * tv + 10 * as
  IN  IF products = <<>> THEN NoProductsResult
      ELSE
        [total_resilience_score |-> RoundDiv(N, 10 * T),
         risk_level |-> IF N >= 8000 * T THEN "low"
                        ELSE IF N >= 6000 * T THEN "medium" ELSE "high",
         factors |->
           [supplier_diversity |-> [score |-> RoundDiv(10 * sd, T), weight |-> 25],
            geographical_diversity |-> [score |-> RoundDiv(10 * gd, T), weight |-> 20],
            component_criticality |-> [score |-> RoundDiv(10 * cc, T), weight |-> 30],
            tariff_vulnerability |-> [score |-> RoundDiv(10 * tv, T), weight |-> 15],
            alternative_sources |-> [score |-> RoundDiv(10 * as, T), weight |-> 10]],
         metrics |->
           [total_components |-> total_components,
            unique_suppliers |-> Cardinality(unique_suppliers),
            unique_countries |-> Cardinality(unique_countries),
            critical_components |-> critical_components,
            tariff_vulnerable_components |-> tariff_vulnerable_components,
            single_supplier_components |-> single_supplier_components]]

\* SupplyChainAnalyzer.calculate_resilience_score.  Scores in tenths, weights
\* in hundredths; T is max(1, total_components), every factor score is kept as
\* score * T so that the weighted total is N / (100 * T).
calculate_resilience_score(G, company_id) ==
  LET products == ProductsToAnalyze(G, company_id)
      pairs == {e \in G.contains : e[1] \in Range(products)}
      comps == {e[2] : e \in pairs}
      total_components == Cardinality(pairs)
      unique_suppliers == UNION {SuppliersOf(G, c) : c \in comps}
      unique_countries == UNION {Range(get_component_countries(G, c)) : c \in comps}
      critical_components == Cardinality({e \in pairs : G.critical[e[2]]})
      tariff_vulnerable_components == Cardinality({e \in pairs : G.tariff_vulnerable[e[2]]})
      single_supplier_components ==
        Cardinality({e \in pairs : Cardinality(SuppliersOf(G, e[2])) <= 1})
      T == Max(1, total_components)
      sd == Min(100 * T, Max(0, 50 * Cardinality(unique_suppliers)))
      gd == Min(100 * T, Max(0, 60 * Cardinality(unique_countries)))
      cc == Min(100 * T, Max(0, 100 * T - 100 * critical_components))
      tv == Min(100 * T, Max(0, 100 * T - 100 * tariff_vulnerable_components))
      as == Min(100 * T, Max(0, 100 * T - 100 * single_supplier_components))
      N == 25 * sd + 20 * gd + 30 * cc + 15 * tv + 10 * as
  IN  IF products = <<>> THEN NoProductsResult
      ELSE
        [total_resilience_score |-> RoundDiv(N, 10 * T),
         risk_level |-> IF N >= 8000 * T THEN "low"
                        ELSE IF N >= 6000 * T THEN "medium" ELSE "high",
         factors |->
           [supplier_diversity |-> [score |-> RoundDiv(10 * sd, T), weight |-> 25],
            geographical_diversity |-> [score |-> RoundDiv(10 * gd, T), weight |-> 20],
            component_criticality |-> [score |-> RoundDiv(10 * cc, T), weight |-> 30],
            tariff_vulnerability |-> [score |-> RoundDiv(10 * tv, T), weight |-> 15],
            alternative_sources |-> [score |-> RoundDiv(10 * as, T), weight |-> 10]],
         metrics |->
           [total_components |-> total_components,
            unique_suppliers |-> Cardinality(unique_suppliers),
            unique_countries |-> Cardinality(unique_countries),
            critical_components |-> critical_components,
            tariff_vulnerable_components |-> tariff_vulnerable_components,
            single_supplier_components |-> single_supplier_components]]

(***************************************************************************)
(* utils.find_affected_products                                            *)
(***************************************************************************)
\* the elements of s at the indices I, in index order
SubSeqAt(s, I) ==
  [k \in 1..Cardinality(I) |->
     s[CHOOSE i \in I : Cardinality({j \in I : j < i}) = k - 1]]

\* keys of a dict in insertion order: first occurrences
FirstOccurrences(s) ==
  SubSeqAt(s, {i \in 1..Len(s) : \A j \in 1..(i - 1) : s[j] # s[i]})

Take(s, n) == SubSeq(s, 1, Min(Len(s), n))

\* a sort key that puts the lowest impact score first
ProductImpactScoreNegated(p) == 0 - p.impact_score

ProductImpactScore(p) == p.impact_score

\* the MANUFACTURES in-edge found first, None when there is none
ManufacturerOf(G, p) ==
  LET ms == OrderedSeq({co \in Companies : <<co, p>> \in G.manufactures}, CompanyOrder)
  IN  IF ms = <<>> THEN NoneId ELSE ms[1]

find_affected_products(G, affected_components) ==
  LET component_ids == [i \in 1..Len(affected_components) |-> affected_components[i].component_id]
      \* (product, component) in the order the loops append them
      hits == FlatMap(component_ids,
                      LAMBDA c : [i \in 1..Len(ProductsUsing(G, c)) |-> <<ProductsUsing(G, c)[i], c>>])
      product_ids == FirstOccurrences([i \in 1..Len(hits) |-> hits[i][1]])
      componentsOf(p) ==
        LET mine == SelectSeq(hits, LAMBDA h : h[1] = p)
        IN  [i \in 1..Len(mine) |->
               [component_id |-> mine[i][2], critical |-> G.critical[mine[i][2]]]]
      record(p) ==
        LET components == componentsOf(p)
            ncrit == Len(SelectSeq(components, LAMBDA c : c.critical))
        IN  [product_id |-> p,
             manufacturer_id |-> ManufacturerOf(G, p),
             affected_components_count |-> Len(components),
             critical_components_count |-> ncrit,
             impact_score |-> SumSeq(components, LAMBDA c : IF c.critical THEN 2 ELSE 1),
             affected_components |-> components]
  IN  SortDesc([i \in 1..Len(product_ids) |-> record(product_ids[i])], ProductImpactScore)

(***************************************************************************)
(* impact_calculator: tariff price impacts and disruption lead times       *)
(***************************************************************************)
MaxOfSeq(s, f(_)) == IF s = <<>> THEN 0 ELSE CHOOSE m \in {f(s[i]) : i \in 1..Len(s)} :
                                               \A i \in 1..Len(s) : f(s[i]) <= m
MinOfSeq(s, f(_)) == IF s = <<>> THEN 0 ELSE CHOOSE m \in {f(s[i]) : i \in 1..Len(s)} :
                                               \A i \in 1..Len(s) : f(s[i]) >= m

\* the entry of affected_components with the given id, as the inner loop finds it
Matches(affected_components, id) == SelectSeq(affected_components, LAMBDA ac : ac.component_id = id)

\* calculate_price_impacts: tariff_increase in percent, prices in hundredths of
\* a percent.  Returns the annotated lists with the summary.
calculate_price_impacts(affected_components, affected_products, tariff_increase) ==
  LET comps == [i \in 1..Len(affected_components) |->
                  [component_id |-> affected_components[i].component_id,
                   tariff_increase |-> affected_components[i].tariff_increase,
                   component_type |-> affected_components[i].component_type,
                   estimated_price_increase |-> 40 * tariff_increase]]
      component_impact(product) ==
        SumSeq(product.affected_components,
               LAMBDA c : IF Matches(comps, c.component_id) = <<>> THEN 0
                          ELSE (Matches(comps, c.component_id)[1].estimated_price_increase
                                * (IF c.critical THEN 5 ELSE 2)) \div 10)
      prods == [i \in 1..Len(affected_products) |->
                  [product_id |-> affected_products[i].product_id,
                   manufacturer_id |-> affected_products[i].manufacturer_id,
                   affected_components_count |-> affected_products[i].affected_components_count,
                   critical_components_count |-> affected_products[i].critical_components_count,
                   impact_score |-> affected_products[i].impact_score,
                   affected_components |-> affected_products[i].affected_components,
                   estimated_price_increase_percentage |->
                     Min(component_impact(affected_products[i]), 100 * tariff_increase)]]
      pct(p) == p.estimated_price_increase_percentage
      total_impact == SumSeq(prods, pct)
  IN  [components |-> comps,
       products |-> prods,
       impacts |-> [average_product_price_increase |-> RoundDiv(total_impact, Max(1, Len(prods))),
                    max_product_price_increase |-> MaxOfSeq(prods, pct),
                    min_product_price_increase |-> MinOfSeq(prods, pct)]]

\* a product loop that takes the maximum over every affected component,
\* critical or not
estimate_lead_time_impacts_any(affected_components, affected_products, severity10, duration_months) ==
  LET twelfths == Min(12, duration_months)
      comps == [i \in 1..Len(affected_components) |->
                  [component_id |-> affected_components[i].component_id,
                   critical |-> affected_components[i].critical,
                   estimated_lead_time_increase_weeks |->
                     RoundDiv(3 * severity10 * twelfths
                                * (IF affected_components[i].critical THEN 15 ELSE 10), 120)]]
      lead(product) ==
        MaxOfSeq(FlatMap(product.affected_components,
                         LAMBDA c : Matches(comps, c.component_id)),
                 LAMBDA ac : ac.estimated_lead_time_increase_weeks)
      prods == [i \in 1..Len(affected_products) |->
                  [product_id |-> affected_products[i].product_id,
                   manufacturer_id |-> affected_products[i].manufacturer_id,
                   affected_components_count |-> affected_products[i].affected_components_count,
                   critical_components_count |-> affected_products[i].critical_components_count,
                   impact_score |-> affected_products[i].impact_score,
                   affected_components |-> affected_products[i].affected_components,
                   estimated_lead_time_increase_weeks |-> lead(affected_products[i])]]
      weeks(p) == p.estimated_lead_time_increase_weeks
  IN  [components |-> comps,
       products |-> prods,
       impacts |-> [average_lead_time_increase_weeks |->
                      RoundDiv(SumSeq(prods, weeks), Max(1, Len(prods))),
                    max_lead_time_increase_weeks |-> MaxOfSeq(prods, weeks),
                    estimated_recovery_time_months |-> twelfths]]

\* estimate_lead_time_impacts: severity in tenths (10 | 6), duration factor
\* min(1, months / 12) as twelfths, lead times in tenths of a week
estimate_lead_time_impacts(affected_components, affected_products, severity10, duration_months) ==
  LET twelfths == Min(12, duration_months)
      comps == [i \in 1..Len(affected_components) |->
                  [component_id |-> affected_components[i].component_id,
                   critical |-> affected_components[i].critical,
                   estimated_lead_time_increase_weeks |->
                     RoundDiv(3 * severity10 * twelfths
                                * (IF affected_components[i].critical THEN 15 ELSE 10), 120)]]
      lead(product) ==
        MaxOfSeq(FlatMap(SelectSeq(product.affected_components, LAMBDA c : c.critical),
                         LAMBDA c : Matches(comps, c.component_id)),
                 LAMBDA ac : ac.estimated_lead_time_increase_weeks)
      prods == [i \in 1..Len(affected_products) |->
                  [product_id |-> affected_products[i].product_id,
                   manufacturer_id |-> affected_products[i].manufacturer_id,
                   affected_components_count |-> affected_products[i].affected_components_count,
                   critical_components_count |-> affected_products[i].critical_components_count,
                   impact_score |-> affected_products[i].impact_score,
                   affected_components |-> affected_products[i].affected_components,
                   estimated_lead_time_increase_weeks |-> lead(affected_products[i])]]
      weeks(p) == p.estimated_lead_time_increase_weeks
  IN  [components |-> comps,
       products |-> prods,
       impacts |-> [average_lead_time_increase_weeks |->
                      RoundDiv(SumSeq(prods, weeks), Max(1, Len(prods))),
                    max_lead_time_increase_weeks |-> MaxOfSeq(prods, weeks),
                    estimated_recovery_time_months |-> twelfths]]

(***************************************************************************)
(* recommendation_generator: records reduced to action and priority        *)
(***************************************************************************)
Rec(action, priority) == [action |-> action, priority |-> priority]
When(cond, rec) == IF cond THEN <<rec>> ELSE <<>>
AnyIn(s, P(_)) == \E i \in 1..Len(s) : P(s[i])

generate_tariff_recommendations(affected_components, affected_products) ==
  LET high_impact_products ==
        SelectSeq(affected_products, LAMBDA p : p.estimated_price_increase_percentage > 200)
      \* p.get('critical', False) reads the product record, which has no such key
      productCritical(p) == "critical" \in DOMAIN p /\ p["critical"]
      highly_affected_criticals ==
        SelectSeq(affected_components,
                  LAMBDA c : /\ c.estimated_price_increase > 300
                             /\ AnyIn(affected_products,
                                      LAMBDA p : /\ AnyIn(p.affected_components,
                                                          LAMBDA ac : ac.component_id = c.component_id)
                                                 /\ productCritical(p)))
  IN  When(affected_components # <<>>, Rec("relocate_sourcing", "high"))
      \o When(high_impact_products # <<>>, Rec("strategic_pricing", "high"))
      \o <<Rec("tariff_exemptions", "medium")>>
      \o When(highly_affected_criticals # <<>>, Rec("product_redesign", "medium"))

generate_disruption_recommendations(affected_components, affected_products, disruption_level, duration_months) ==
  LET critical_components == SelectSeq(affected_components, LAMBDA c : c.critical)
      high_impact_products ==
        SelectSeq(affected_products,
                  LAMBDA p : /\ p.critical_components_count > 0
                             /\ p.estimated_lead_time_increase_weeks > 20)
  IN  When(affected_components # <<>>,
           Rec("alternative_suppliers", IF critical_components # <<>> THEN "high" ELSE "medium"))
      \o <<Rec("inventory_strategy", "high")>>
      \o When(disruption_level = "complete" /\ duration_months > 1,
              Rec("production_adjustment", "high"))
      \o When(disruption_level = "complete" /\ duration_months > 3,
              Rec("supplier_diversification", "medium"))
      \o When(high_impact_products # <<>>, Rec("customer_communication", "high"))

(***************************************************************************)
(* impact_calculator: geopolitical and shortage product impacts            *)
(***************************************************************************)
\* the multiplier 1.5 | 1.0 in tenths
ImpactMultiplier(c) == IF c.critical THEN 15 ELSE 10

\* sum over the product's components of value(ac) * multiplier, for the
\* matching entries ac of affected_components (in tenths * tenths)
WeightedSum(product, affected_components, value(_)) ==
  SumSeq(product.affected_components,
         LAMBDA c : SumSeq(Matches(affected_components, c.component_id),
                           LAMBDA ac : value(ac) * ImpactMultiplier(c)))

MatchedCount(product, affected_components) ==
  SumSeq(product.affected_components,
         LAMBDA c : Len(Matches(affected_components, c.component_id)))

CriticalMatched(product, affected_components) ==
  SumSeq(product.affected_components,
         LAMBDA c : IF c.critical THEN Len(Matches(affected_components, c.component_id)) ELSE 0)

\* calculate_product_impacts (geopolitical); all values in tenths
calculate_product_impacts(affected_products, affected_components) ==
  LET prods ==
        [i \in 1..Len(affected_products) |->
          LET product == affected_products[i]
              component_count == Max(1, Len(product.affected_components))
          IN  [product_id |-> product.product_id,
               manufacturer_id |-> product.manufacturer_id,
               affected_components_count |-> product.affected_components_count,
               critical_components_count |-> product.critical_components_count,
               impact_score |-> product.impact_score,
               affected_components |-> product.affected_components,
               lead_time_increase_weeks |->
                 RoundDiv(WeightedSum(product, affected_components,
                                      LAMBDA ac : ac.lead_time_impact), 10 * component_count),
               availability_decrease_percent |->
                 Min(RoundDiv(WeightedSum(product, affected_components,
                                          LAMBDA ac : ac.availability_impact), 10 * component_count),
                     1000),
               cost_increase_percent |->
                 RoundDiv(WeightedSum(product, affected_components,
                                      LAMBDA ac : ac.cost_impact), 10 * component_count),
               critical_components_affected |-> CriticalMatched(product, affected_components)]]
      lt(p) == p.lead_time_increase_weeks
      av(p) == p.availability_decrease_percent
      co(p) == p.cost_increase_percent
      n == Max(1, Len(prods))
  IN  [products |-> prods,
       impacts |-> [average_lead_time_increase |-> RoundDiv(SumSeq(prods, lt), n),
                    average_availability_decrease |-> RoundDiv(SumSeq(prods, av), n),
                    average_cost_increase |-> RoundDiv(SumSeq(prods, co), n),
                    max_lead_time_increase |-> MaxOfSeq(prods, lt),
                    max_availability_decrease |-> MaxOfSeq(prods, av),
                    max_cost_increase |-> MaxOfSeq(prods, co)]]

\* determine_overall_impact; resilience scores and impacts in tenths
determine_overall_impact(new_resilience, base_resilience, product_impacts) ==
  LET resilience_drop == base_resilience - new_resilience
  IN  IF \/ resilience_drop > 150
         \/ product_impacts.average_lead_time_increase > 80
         \/ product_impacts.average_availability_decrease > 400
         \/ product_impacts.average_cost_increase > 200
      THEN "high"
      ELSE IF \/ resilience_drop > 70
              \/ product_impacts.average_lead_time_increase > 40
              \/ product_impacts.average_availability_decrease > 200
              \/ product_impacts.average_cost_increase > 100
      THEN "medium"
      ELSE "low"

\* calculate_shortage_product_impacts; all values in tenths
calculate_shortage_product_impacts(affected_products, affected_components) ==
  LET prods ==
        [i \in 1..Len(affected_products) |->
          LET product == affected_products[i]
              component_count == MatchedCount(product, affected_components)
              avg(value(_)) ==
                IF component_count > 0
                THEN RoundDiv(WeightedSum(product, affected_components, value), 10 * component_count)
                ELSE 0
          IN  [product_id |-> product.product_id,
               manufacturer_id |-> product.manufacturer_id,
               affected_components_count |-> product.affected_components_count,
               critical_components_count |-> product.critical_components_count,
               impact_score |-> product.impact_score,
               affected_components |-> product.affected_components,
               lead_time_increase_weeks |-> avg(LAMBDA ac : ac.lead_time_increase_weeks),
               price_increase_percent |-> avg(LAMBDA ac : ac.price_increase_percent),
               allocation_reduction_percent |-> avg(LAMBDA ac : ac.allocation_reduction_percent),
               critical_components_affected |-> CriticalMatched(product, affected_components)]]
      lt(p) == p.lead_time_increase_weeks
      pr(p) == p.price_increase_percent
      al(p) == p.allocation_reduction_percent
      n == Max(1, Len(prods))
  IN  [products |-> prods,
       impacts |-> [average_lead_time_increase |-> RoundDiv(SumSeq(prods, lt), n),
                    average_price_increase |-> RoundDiv(SumSeq(prods, pr), n),
                    average_allocation_reduction |-> RoundDiv(SumSeq(prods, al), n),
                    max_lead_time_increase |-> MaxOfSeq(prods, lt),
                    max_price_increase |-> MaxOfSeq(prods, pr),
                    max_allocation_reduction |-> MaxOfSeq(prods, al)]]

generate_geopolitical_recommendations(event_type, severity, duration_months, affected_components, affected_products) ==
  LET critical_components == SelectSeq(affected_components, LAMBDA c : c.critical)
  IN  When(critical_components # <<>>, Rec("alternative_sourcing", "high"))
      \o When(event_type \in {"trade_restriction", "conflict"} /\ severity \in {"medium", "high"},
              Rec("inventory_buffer", "high"))
      \o When(severity = "high" /\ affected_products # <<>>,
              Rec("production_prioritization", "high"))
      \o When(duration_months > 6 \/ severity = "high",
              Rec("geographic_diversification", "medium"))
      \o When(event_type = "trade_restriction", Rec("trade_compliance", "high"))
      \o When(event_type = "conflict", Rec("logistics_rerouting", "high"))
      \o When(event_type = "natural_disaster", Rec("supplier_recovery", "medium"))

generate_shortage_recommendations(shortage_level, duration_months, affected_components, affected_products) ==
  LET critical_components == SelectSeq(affected_components, LAMBDA c : c.critical)
      high_impact_products ==
        SelectSeq(affected_products,
                  LAMBDA p : /\ p.allocation_reduction_percent > 300
                             /\ p.critical_components_affected > 0)
  IN  <<Rec("allocation_strategy", "high")>>
      \o When(critical_components # <<>>, Rec("alternative_components", "high"))
      \o When(shortage_level = "severe", Rec("pricing_strategy", "medium"))
      \o When(duration_months > 3, Rec("supply_agreements", "high"))
      \o When(high_impact_products # <<>> /\ duration_months > 6,
              Rec("product_redesign", "medium"))
      \o <<Rec("customer_communication", "high")>>

(***************************************************************************)
(* geopolitical_modeler.model_geopolitical_event                           *)
(*   G   the graph argument, AG the graph the analyzer argument is bound to *)
(***************************************************************************)
\* severity_mapping.get(severity, 0.5) in tenths
SeverityFactor(severity) ==
  CASE severity = "low" -> 3 [] severity = "medium" -> 6 [] severity = "high" -> 9 [] OTHER -> 5

\* event_type_mapping.get(event_type, default) in tenths
EventFactors(event_type) ==
  CASE event_type = "trade_restriction" -> [lead_time |-> 5, availability |-> 3, cost |-> 8]
    [] event_type = "conflict" -> [lead_time |-> 9, availability |-> 8, cost |-> 6]
    [] event_type = "natural_disaster" -> [lead_time |-> 7, availability |-> 9, cost |-> 4]
    [] event_type = "political_change" -> [lead_time |-> 3, availability |-> 2, cost |-> 5]
    [] OTHER -> [lead_time |-> 5, availability |-> 5, cost |-> 5]

SetFlags(flags, ids, value) == [c \in Components |-> IF c \in ids THEN value ELSE flags[c]]

ResilienceImpact(before, after) ==
  [before |-> before, after |-> after, change |-> after - before]

model_geopolitical_event(G, AG, country, event_type, severity, duration_months) ==
  LET Result(base, new, country_components, pi) ==
        [scenario_type |-> "geopolitical_event",
         country |-> country,
         event_type |-> event_type,
         severity |-> severity,
         duration_months |-> duration_months,
         affected_components_count |-> Len(country_components),
         affected_components |-> Take(country_components, 15),
         affected_products_count |-> Len(pi.products),
         affected_products |-> Take(pi.products, 10),
         resilience_impact |-> ResilienceImpact(base, new),
         impact_assessment |-> [lead_time |-> pi.impacts.average_lead_time_increase,
                                availability |-> pi.impacts.average_availability_decrease,
                                cost |-> pi.impacts.average_cost_increase,
                                overall_impact_level |->
                                  determine_overall_impact(new, base, pi.impacts)],
         recovery_timeline |-> [estimated_months |->
                                  Max(duration_months, RoundDiv(SeverityFactor(severity) * 18, 10))],
         recommendations |-> generate_geopolitical_recommendations(
                               event_type, severity, duration_months,
                               country_components, pi.products)]
      \* impacts of the products found on the graph argument
      Assess(base, new, country_components) ==
        Result(base, new, country_components,
               calculate_product_impacts(find_affected_products(G, country_components),
                                         country_components))
      \* ids: the components of the graph argument that originate from country;
      \* the flags go to a deep copy, which a temporary analyzer scores
      Model(ids, severity_factor, event_factors) ==
        Assess(calculate_resilience_score(AG, NoneId).total_resilience_score,
               calculate_resilience_score(
                 [deepcopy(G) EXCEPT !.affected_by_event = SetFlags(@, Range(ids), TRUE),
                                     !.event_impact_level = SetFlags(@, Range(ids), severity)],
                 NoneId).total_resilience_score,
               [i \in 1..Len(ids) |->
                  [component_id |-> ids[i],
                   critical |-> G.critical[ids[i]],
                   lead_time_impact |-> severity_factor * event_factors.lead_time,
                   availability_impact |-> severity_factor * event_factors.availability * 10,
                   cost_impact |-> severity_factor * event_factors.cost * 3]])
  IN  Model(SelectSeq(ComponentNodes(G),
                      LAMBDA c : country \in Range(get_component_countries(G, c))),
            SeverityFactor(severity), EventFactors(event_type))

(***************************************************************************)
(* shortage_modeler.model_component_shortage                               *)
(***************************************************************************)
\* str.lower() on the strings of the model
Lower(str) ==
  CASE str = "Memory Chip" -> "memory chip"
    [] str = "DISPLAY" -> "display"
    [] str = "Display" -> "display"
    [] OTHER -> str

\* a in b for lower-case strings of the model
IsSubstring(a, b) == a = b \/ <<a, b>> \in {<<"chip", "memory chip">>, <<"memory", "memory chip">>}

\* product attributes the allocation strategy reads
ReleaseYear(p) == IF p = "p1" THEN 2018 ELSE 2021
RetailPriceUsd(p) == IF p = "p1" THEN 1000 ELSE 500

calculate_allocation_strategy(affected_products, shortage_level) ==
  LET Ids(products) == [i \in 1..Len(products) |-> products[i].product_id]
      Tiers(strategic_products, n, cut1, cut2) ==
        [tier1 |-> SubSeq(strategic_products, 1, cut1),
         tier2 |-> SubSeq(strategic_products, cut1 + 1, cut2),
         tier3 |-> SubSeq(strategic_products, cut2 + 1, n)]
      moderate == shortage_level = "moderate"
  IN  [available_supply_percent |-> IF moderate THEN 70 ELSE 50,
       allocation_strategy |-> "prioritized",
       product_tiers |-> Tiers(SortDesc(Ids(affected_products), LAMBDA x : ReleaseYear(x) - 2015),
                               Len(affected_products),
                               (Len(affected_products) * 2) \div 10,
                               (Len(affected_products) * 5) \div 10),
       allocation_percentages |-> [tier1 |-> IF moderate THEN 90 ELSE 80,
                                   tier2 |-> IF moderate THEN 70 ELSE 50,
                                   tier3 |-> IF moderate THEN 50 ELSE 30],
       high_margin_products |->
         Take(SortDesc(Ids(affected_products), LAMBDA x : RetailPriceUsd(x) * 2), 5),
       most_critical_products |->
         Ids(SelectSeq(Take(SortDesc(affected_products, LAMBDA x : x.critical_components_count), 5),
                       LAMBDA x : x.critical_components_count > 0))]

model_component_shortage(G, AG, component_type, shortage_level, duration_months) ==
  LET Result(base, new, affected_components, pi) ==
        [scenario_type |-> "component_shortage",
         component_type |-> component_type,
         shortage_level |-> shortage_level,
         duration_months |-> duration_months,
         affected_components_count |-> Len(affected_components),
         affected_components |-> Take(affected_components, 15),
         affected_products_count |-> Len(pi.products),
         affected_products |-> Take(pi.products, 10),
         resilience_impact |-> ResilienceImpact(base, new),
         impact_assessment |->
           [average_lead_time_increase |-> pi.impacts.average_lead_time_increase,
            average_price_increase |-> pi.impacts.average_price_increase,
            average_allocation_reduction |-> pi.impacts.average_allocation_reduction,
            max_lead_time_increase |-> pi.impacts.max_lead_time_increase,
            max_price_increase |-> pi.impacts.max_price_increase],
         allocation_strategy |-> calculate_allocation_strategy(pi.products, shortage_level),
         recommendations |-> generate_shortage_recommendations(
                               shortage_level, duration_months, affected_components, pi.products)]
      Assess(base, new, affected_components) ==
        Result(base, new, affected_components,
               calculate_shortage_product_impacts(
                 find_affected_products(G, affected_components), affected_components))
      \* severity 0.8 | 0.5 and the critical factor 1.2 | 1.0 in tenths
      Impact(c, severity_factor, scale) ==
        RoundDiv(severity_factor * (IF G.critical[c] THEN 12 ELSE 10) * scale, 10)
      \* ids: the components whose category contains component_type; the
      \* flags go to a deep copy, which a temporary analyzer scores
      Model(ids, severity_factor) ==
        Assess(calculate_resilience_score(AG, NoneId).total_resilience_score,
               calculate_resilience_score(
                 [deepcopy(G) EXCEPT !.affected_by_shortage = SetFlags(@, Range(ids), TRUE),
                                     !.shortage_level = SetFlags(@, Range(ids), shortage_level)],
                 NoneId).total_resilience_score,
               [i \in 1..Len(ids) |->
                  [component_id |-> ids[i],
                   critical |-> G.critical[ids[i]],
                   category |-> G.category[ids[i]],
                   lead_time_increase_weeks |-> Impact(ids[i], severity_factor, 12),
                   price_increase_percent |-> Impact(ids[i], severity_factor, 50),
                   allocation_reduction_percent |-> Impact(ids[i], severity_factor, 40)]])
  IN  Model(SelectSeq(ComponentNodes(G),
                      LAMBDA c : IsSubstring(Lower(component_type), Lower(G.category[c]))),
            IF shortage_level = "severe" THEN 8 ELSE 5)

(***************************************************************************)
(* ScenarioModeler.  Graph objects live in a heap; the modeler holds       *)
(* references: original_graph, graph (the working copy) and the graph its  *)
(* analyzer is bound to.  A world W is [heap, m].                          *)
(***************************************************************************)
AnyType == {"*"}          \* affected_component_types = None

\* ScenarioModeler.__init__(graph, analyzer): the analyzer argument is either
\* None (one is built on the working copy) or the caller's analyzer, which
\* PredictionEngine binds to the caller's graph.
ScenarioModeler_init(heap, orig, copy, analyzerGiven) ==
  LET h == [heap EXCEPT ![copy] = deepcopy(heap[orig])]
      analyzer == IF analyzerGiven THEN orig ELSE copy
  IN  [heap |-> h,
       m |-> [original_graph |-> orig,
              graph |-> copy,
              analyzer |-> analyzer,
              base_resilience |-> calculate_resilience_score(h[analyzer], NoneId)]]

\* a reset that shares the original instead of copying it
reset_scenario_shared(W, copy) ==
  [heap |-> W.heap,
   m |-> [W.m EXCEPT !.graph = W.m.original_graph, !.analyzer = W.m.original_graph]]

\* reset_scenario, first statement: self.graph becomes a new object, a deep
\* copy of the original
reset_graph(W, copy) ==
  [heap |-> [c \in DOMAIN W.heap \cup {copy} |->
               IF c = copy THEN deepcopy(W.heap[W.m.original_graph]) ELSE W.heap[c]],
   m |-> [W.m EXCEPT !.graph = copy]]

\* reset_scenario, second statement: a new analyzer bound to whatever
\* self.graph is at that moment
reset_analyzer(W) == [W EXCEPT !.m.analyzer = W.m.graph]

\* ScenarioModeler.reset_scenario
reset_scenario(W, copy) == reset_analyzer(reset_graph(W, copy))

\* a selection that forgets the country test
TariffMatchesAnyCountry(G, country, types) ==
  SelectSeq(ComponentNodes(G), LAMBDA c : types = AnyType \/ G.category[c] \in types)

\* the components model_tariff_change selects, in node order
TariffMatches(G, country, types) ==
  SelectSeq(ComponentNodes(G),
            LAMBDA c : /\ country \in Range(get_component_countries(G, c))
                       /\ (types = AnyType \/ G.category[c] \in types))

ZeroImpactTariffResult(base, country, increase_percentage) ==
  [scenario_type |-> "tariff_change",
   country |-> country,
   increase_percentage |-> increase_percentage,
   affected_components |-> <<>>,
   affected_products_count |-> 0,
   affected_products |-> <<>>,
   resilience_impact |-> [before |-> base, after |-> base, change |-> 0],
   price_impacts |-> [average_product_price_increase |-> 0],
   recommendations |-> <<>>]

\* the result model_tariff_change assembles once the working copy is flagged
TariffListed(G, ids, increase_percentage) ==
  [i \in 1..Len(ids) |->
     [component_id |-> ids[i],
      tariff_increase |-> increase_percentage,
      component_type |-> G.category[ids[i]]]]

\* the result dict of the non-empty branch of model_tariff_change
TariffAssembled(base, new, pi, country, increase_percentage) ==
  [scenario_type |-> "tariff_change",
   country |-> country,
   increase_percentage |-> increase_percentage,
   affected_components |-> pi.components,
   affected_products_count |-> Len(pi.products),
   affected_products |-> Take(pi.products, 10),
   resilience_impact |-> ResilienceImpact(base, new),
   price_impacts |-> pi.impacts,
   recommendations |-> generate_tariff_recommendations(pi.components, pi.products)]

\* a tariff assessment that scores the graph before the flags are set
TariffResultScoredFirst(W, G, ids, country, increase_percentage) ==
  LET Assess(base, listed) ==
        TariffAssembled(
          base,
          calculate_resilience_score(W.heap[W.m.original_graph], NoneId).total_resilience_score,
          calculate_price_impacts(listed, find_affected_products(G, listed),
                                  increase_percentage),
          country, increase_percentage)
  IN  IF ids = <<>>
      THEN ZeroImpactTariffResult(W.m.base_resilience.total_resilience_score,
                                  country, increase_percentage)
      ELSE Assess(W.m.base_resilience.total_resilience_score,
                  TariffListed(G, ids, increase_percentage))

TariffResult(W, G, ids, country, increase_percentage) ==
  LET Assess(base, listed) ==
        TariffAssembled(
          base,
          calculate_resilience_score(W.heap[W.m.analyzer], NoneId).total_resilience_score,
          calculate_price_impacts(listed, find_affected_products(G, listed),
                                  increase_percentage),
          country, increase_percentage)
  IN  IF ids = <<>>
      THEN ZeroImpactTariffResult(W.m.base_resilience.total_resilience_score,
                                  country, increase_percentage)
      ELSE Assess(W.m.base_resilience.total_resilience_score,
                  TariffListed(G, ids, increase_percentage))

\* ScenarioModeler.model_tariff_change
model_tariff_change(W, copy, country, increase_percentage, types) ==
  LET Finish(W2, G2, ids) ==
        [W |-> W2, result |-> TariffResult(W2, G2, ids, country, increase_percentage)]
      Mark(W1, G, ids) ==
        Finish([W1 EXCEPT !.heap[W1.m.graph].tariff_vulnerable = SetFlags(@, Range(ids), TRUE)],
               [G EXCEPT !.tariff_vulnerable = SetFlags(@, Range(ids), TRUE)],
               ids)
      Identify(W1, G) == Mark(W1, G, TariffMatches(G, country, types))
      Start(W1) == Identify(W1, W1.heap[W1.m.graph])
  IN  Start(reset_scenario(W, copy))

UnknownSupplierResult(disruption_level, duration_months) ==
  [scenario_type |-> "supplier_disruption",
   supplier |-> "Unknown",
   disruption_level |-> disruption_level,
   duration_months |-> duration_months,
   affected_components |-> <<>>,
   affected_products |-> <<>>,
   impact_assessment |-> "Supplier not found in graph"]

\* targets of the SUPPLIES out-edges of supplier_id, in edge order
SuppliedBy(G, supplier_id) ==
  OrderedSeq({c \in Components : <<supplier_id, c>> \in G.supplies}, ComponentOrder)

\* a mutation loop that removes the edge and sets the flag whatever the level
DisruptWorkingCopyBothWays(G, supplier_id, ids, disruption_level) ==
  [G EXCEPT !.supplies = @ \ {<<supplier_id, c>> : c \in Range(ids)},
            !.supply_constrained = SetFlags(@, Range(ids), TRUE)]

\* a mutation loop that gives every affected component one more supplier
DisruptWorkingCopyAdding(G, supplier_id, ids, disruption_level) ==
  [G EXCEPT !.supplies = @ \cup {<<"s3", c>> : c \in Range(ids)}]

\* a mutation loop that removes the SUPPLIES edges whatever the level
DisruptWorkingCopyRemoving(G, supplier_id, ids, disruption_level) ==
  [G EXCEPT !.supplies = @ \ {<<supplier_id, c>> : c \in Range(ids)}]

\* the mutation loop of model_supplier_disruption over the affected components
DisruptWorkingCopy(G, supplier_id, ids, disruption_level) ==
  IF disruption_level = "complete"
  THEN [G EXCEPT !.supplies = @ \ {<<supplier_id, c>> : c \in Range(ids)}]
  ELSE [G EXCEPT !.supply_constrained = SetFlags(@, Range(ids), TRUE)]

DisruptionListed(G, ids) ==
  [i \in 1..Len(ids) |-> [component_id |-> ids[i], critical |-> G.critical[ids[i]]]]

SeverityOf(disruption_level) == IF disruption_level = "complete" THEN 10 ELSE 6

\* the result dict model_supplier_disruption returns for a known supplier
DisruptionAssembled(base, new, lt, supplier_id, disruption_level, duration_months) ==
  [scenario_type |-> "supplier_disruption",
   supplier_id |-> supplier_id,
   disruption_level |-> disruption_level,
   duration_months |-> duration_months,
   affected_components_count |-> Len(lt.components),
   affected_components |-> lt.components,
   affected_products_count |-> Len(lt.products),
   affected_products |-> Take(lt.products, 10),
   resilience_impact |-> ResilienceImpact(base, new),
   lead_time_impacts |-> lt.impacts,
   recommendations |-> generate_disruption_recommendations(
                         lt.components, lt.products, disruption_level, duration_months)]

DisruptionResult(W, G, ids, supplier_id, disruption_level, duration_months) ==
  LET Assess(listed) ==
        DisruptionAssembled(
          W.m.base_resilience.total_resilience_score,
          calculate_resilience_score(W.heap[W.m.analyzer], NoneId).total_resilience_score,
          estimate_lead_time_impacts(listed, find_affected_products(G, listed),
                                     SeverityOf(disruption_level), duration_months),
          supplier_id, disruption_level, duration_months)
  IN  Assess(DisruptionListed(G, ids))

\* the early return of model_supplier_disruption skipped
KnownSupplier(G, supplier_id) == TRUE
SupplierInGraph(G, supplier_id) == supplier_id \in G.nodes

\* ScenarioModeler.model_supplier_disruption
model_supplier_disruption(W, copy, supplier_id, disruption_level, duration_months) ==
  LET Finish(W2, G2, ids) ==
        [W |-> W2,
         result |-> DisruptionResult(W2, G2, ids, supplier_id, disruption_level, duration_months)]
      Disrupt(W1, G2, ids) == Finish([W1 EXCEPT !.heap[W1.m.graph] = G2], G2, ids)
      Collect(W1, G, ids) ==
        Disrupt(W1, DisruptWorkingCopy(G, supplier_id, ids, disruption_level), ids)
      Start(W1, G) ==
        IF ~SupplierInGraph(G, supplier_id)
        THEN [W |-> W1, result |-> UnknownSupplierResult(disruption_level, duration_months)]
        ELSE Collect(W1, G, SuppliedBy(G, supplier_id))
      Reset(W1) == Start(W1, W1.heap[W1.m.graph])
  IN  Reset(reset_scenario(W, copy))

\* ScenarioModeler.model_geopolitical_event / model_component_shortage: the
\* working copy and the analyzer are passed on as they are, without a reset
modeler_geopolitical_event(W, country, event_type, severity, duration_months) ==
  [W |-> W,
   result |-> model_geopolitical_event(W.heap[W.m.graph], W.heap[W.m.analyzer],
                                       country, event_type, severity, duration_months)]

modeler_component_shortage(W, component_type, shortage_level, duration_months) ==
  [W |-> W,
   result |-> model_component_shortage(W.heap[W.m.graph], W.heap[W.m.analyzer],
                                       component_type, shortage_level, duration_months)]

(***************************************************************************)
(* ScenarioModeler.combine_scenarios                                       *)
(***************************************************************************)
Get(r, k, default) == IF k \in DOMAIN r THEN r[k] ELSE default

\* one iteration of the inner loops of combine_scenarios
ApplyComponent(G, scenario, cid) ==
  LET scenario_type == Get(scenario, "scenario_type", NoneId)
      supplier_id == Get(scenario, "supplier_id", NoneId)
      present == cid \in G.nodes
  IN  CASE scenario_type = "tariff_change" ->
             IF present THEN [G EXCEPT !.tariff_vulnerable[cid] = TRUE] ELSE G
        [] scenario_type = "supplier_disruption" ->
             IF Get(scenario, "disruption_level", NoneId) = "complete"
                /\ <<supplier_id, cid>> \in G.supplies
             THEN [G EXCEPT !.supplies = @ \ {<<supplier_id, cid>>}]
             ELSE IF present THEN [G EXCEPT !.supply_constrained[cid] = TRUE] ELSE G
        [] scenario_type = "geopolitical_event" ->
             IF present
             THEN [G EXCEPT !.affected_by_event[cid] = TRUE,
                            !.event_impact_level[cid] = Get(scenario, "severity", "medium")]
             ELSE G
        [] scenario_type = "component_shortage" ->
             IF present
             THEN [G EXCEPT !.affected_by_shortage[cid] = TRUE,
                            !.shortage_level[cid] = Get(scenario, "shortage_level", "moderate")]
             ELSE G
        [] OTHER -> G

ApplyScenario(G, scenario) ==
  LET comps == Get(scenario, "affected_components", <<>>)
      acc[n \in 0..Len(comps)] ==
        IF n = 0 THEN G ELSE ApplyComponent(acc[n - 1], scenario, comps[n].component_id)
  IN  acc[Len(comps)]

ApplyScenarios(G, scenarios) ==
  LET acc[n \in 0..Len(scenarios)] ==
        IF n = 0 THEN G ELSE ApplyScenario(acc[n - 1], scenarios[n])
  IN  acc[Len(scenarios)]

\* ScenarioModeler._get_component_impact_sources; f'affected_by_{x}_event' is
\* the tuple <<"affected_by", x, "event">>
get_component_impact_sources(G, c) ==
  (IF G.tariff_vulnerable[c] THEN << <<"tariff_vulnerable">> >> ELSE <<>>)
  \o (IF G.supply_constrained[c] THEN << <<"supply_constrained">> >> ELSE <<>>)
  \o (IF G.affected_by_event[c]
      THEN << <<"affected_by", G.event_impact_level[c], "event">> >> ELSE <<>>)
  \o (IF G.affected_by_shortage[c]
      THEN << <<"affected_by", G.shortage_level[c], "shortage">> >> ELSE <<>>)

\* a priority map that ranks low first
PriorityRankLowFirst(rec) ==
  LET p == Get(rec, "priority", "low")
  IN  CASE p = "high" -> 2 [] p = "medium" -> 1 [] p = "low" -> 0 [] OTHER -> 3

\* priority_map.get(x.get('priority', 'low'), 3)
PriorityRank(rec) ==
  LET p == Get(rec, "priority", "low")
  IN  CASE p = "high" -> 0 [] p = "medium" -> 1 [] p = "low" -> 2 [] OTHER -> 3

\* ScenarioModeler._generate_compound_recommendations
generate_compound_recommendations(scenarios, affected_components, affected_products) ==
  LET all_recommendations == FlatMap(scenarios, LAMBDA sc : Get(sc, "recommendations", <<>>))
      actions == FirstOccurrences([i \in 1..Len(all_recommendations) |->
                                     all_recommendations[i].action])
      best(action) ==
        SortDesc(SelectSeq(all_recommendations, LAMBDA r : r.action = action),
                 LAMBDA r : 0 - PriorityRank(r))[1]
      consolidated == SortDesc([i \in 1..Len(actions) |-> best(actions[i])],
                               LAMBDA r : 0 - PriorityRank(r))
  IN  IF Len(scenarios) > 1
      THEN <<Rec("compound_strategy", "high")>> \o consolidated
      ELSE consolidated

\* ScenarioModeler.combine_scenarios
combine_scenarios(W, copy, scenarios) ==
  LET Result(base, new, affected_components, affected_products) ==
        [scenario_type |-> "compound",
         scenarios_combined |-> Len(scenarios),
         scenario_types |-> [i \in 1..Len(scenarios) |->
                               Get(scenarios[i], "scenario_type", NoneId)],
         affected_components_count |-> Len(affected_components),
         affected_components |-> Take(affected_components, 15),
         affected_products_count |-> Len(affected_products),
         affected_products |-> Take(affected_products, 10),
         resilience_impact |-> ResilienceImpact(base, new),
         impact_assessment |-> [severity |-> IF new - base < 0 - 150 THEN "high" ELSE "medium"],
         recommendations |->
           generate_compound_recommendations(scenarios, affected_components, affected_products)]
      Assess(W2, G2, affected_components) ==
        [W |-> W2,
         result |-> Result(W2.m.base_resilience.total_resilience_score,
                           calculate_resilience_score(W2.heap[W2.m.analyzer],
                                                      NoneId).total_resilience_score,
                           affected_components,
                           find_affected_products(G2, affected_components))]
      Collect(W2, G2, ids) ==
        Assess(W2, G2,
               [i \in 1..Len(ids) |->
                  [component_id |-> ids[i],
                   critical |-> G2.critical[ids[i]],
                   impact_sources |-> get_component_impact_sources(G2, ids[i])]])
      Applied(W1, G2) ==
        Collect([W1 EXCEPT !.heap[W1.m.graph] = G2], G2,
                SelectSeq(ComponentNodes(G2),
                          LAMBDA c : \/ G2.tariff_vulnerable[c] \/ G2.supply_constrained[c]
                                     \/ G2.affected_by_event[c] \/ G2.affected_by_shortage[c]))
      Reset(W1) == Applied(W1, ApplyScenarios(W1.heap[W1.m.graph], scenarios))
  IN  Reset(reset_scenario(W, copy))

(***************************************************************************)
(* The remaining SupplyChainAnalyzer queries, InsightExtractor's summary   *)
(* report and PredictionEngine.generate_recommendations.  A raised         *)
(* exception is the value Raise(type, key).                                *)
(***************************************************************************)
Raise(type, key) == [raised |-> type, key |-> key]
Raised(r) == "raised" \in DOMAIN r

\* a detection that reports components no product contains as well
detect_single_points_of_failure_unused(G) ==
  LET single_supplier ==
        SelectSeq(ComponentNodes(G), LAMBDA c : Cardinality(SuppliersOf(G, c)) = 1)
      single_country ==
        SelectSeq(ComponentNodes(G), LAMBDA c : Len(get_component_countries(G, c)) = 1)
      risk(c) == IF G.critical[c] THEN "high" ELSE "medium"
  IN  [i \in 1..Len(single_supplier) |->
         [type |-> "single_supplier",
          component_id |-> single_supplier[i],
          source |-> OrderedSeq(SuppliersOf(G, single_supplier[i]), SupplierOrder)[1],
          affected_products |-> ProductsUsing(G, single_supplier[i]),
          risk_level |-> risk(single_supplier[i])]]
      \o
      [i \in 1..Len(single_country) |->
         [type |-> "single_country",
          component_id |-> single_country[i],
          source |-> get_component_countries(G, single_country[i])[1],
          affected_products |-> ProductsUsing(G, single_country[i]),
          risk_level |-> risk(single_country[i])]]

\* SupplyChainAnalyzer.detect_single_points_of_failure
detect_single_points_of_failure(G) ==
  LET used(c) == ProductsUsing(G, c) # <<>>
      single_supplier ==
        SelectSeq(ComponentNodes(G), LAMBDA c : Cardinality(SuppliersOf(G, c)) = 1 /\ used(c))
      single_country ==
        SelectSeq(ComponentNodes(G), LAMBDA c : Len(get_component_countries(G, c)) = 1 /\ used(c))
      risk(c) == IF G.critical[c] THEN "high" ELSE "medium"
  IN  [i \in 1..Len(single_supplier) |->
         [type |-> "single_supplier",
          component_id |-> single_supplier[i],
          source |-> OrderedSeq(SuppliersOf(G, single_supplier[i]), SupplierOrder)[1],
          affected_products |-> ProductsUsing(G, single_supplier[i]),
          risk_level |-> risk(single_supplier[i])]]
      \o
      [i \in 1..Len(single_country) |->
         [type |-> "single_country",
          component_id |-> single_country[i],
          source |-> get_component_countries(G, single_country[i])[1],
          affected_products |-> ProductsUsing(G, single_country[i]),
          risk_level |-> risk(single_country[i])]]

\* f"country_{country.lower().replace(' ', '_')}"
CountryIdOf(country) ==
  CASE country = "China" -> "country_china"
    [] country = "Vietnam" -> "country_vietnam"
    [] country = "Japan" -> "country_japan"
    [] OTHER -> "country_other"

\* SupplyChainAnalyzer.assess_tariff_vulnerability
assess_tariff_vulnerability(G, country) ==
  LET selected ==
        SelectSeq(ComponentNodes(G),
                  LAMBDA c : /\ G.tariff_vulnerable[c]
                             /\ (country = NoneId \/ <<c, CountryIdOf(country)>> \in G.originates)
                             /\ ProductsUsing(G, c) # <<>>)
      affected_products == UNION {Range(ProductsUsing(G, c)) : c \in Range(selected)}
      affected_companies == {ManufacturerOf(G, p) : p \in affected_products} \ {NoneId}
  IN  [affected_components_count |-> Len(selected),
       affected_products_count |-> Cardinality(affected_products),
       affected_companies_count |-> Cardinality(affected_companies),
       highest_risk_components |-> Take(selected, 10),
       country_focus |-> country]

\* SupplyChainAnalyzer.identify_geographical_concentration; concentration
\* score in thousandths
identify_geographical_concentration(G) ==
  LET comps == ComponentNodes(G)
      mentions == FlatMap(comps, LAMBDA c : get_component_countries(G, c))
      countries == FirstOccurrences(mentions)
      of(country) == SelectSeq(FlatMap(comps,
                       LAMBDA c : [i \in 1..Len(get_component_countries(G, c)) |->
                                     <<get_component_countries(G, c)[i], c>>]),
                       LAMBDA h : h[1] = country)
      analysis(country) ==
        LET n == Len(of(country))
            critical_count == Len(SelectSeq(of(country), LAMBDA h : G.critical[h[2]]))
            tv_count == Len(SelectSeq(of(country), LAMBDA h : G.tariff_vulnerable[h[2]]))
        IN  [country |-> country,
             total_components |-> n,
             critical_components |-> critical_count,
             tariff_vulnerable_components |-> tv_count,
             concentration_score |->
               RoundDiv((4 * n + 6 * critical_count) * 100, Max(1, Cardinality(G.nodes))),
             risk_level |-> IF critical_count > 5 THEN "high"
                            ELSE IF critical_count > 2 THEN "medium" ELSE "low"]
      countries_analysis ==
        SortDesc([i \in 1..Len(countries) |-> analysis(countries[i])],
                 LAMBDA x : x.concentration_score)
      count(level) == Len(SelectSeq(countries_analysis, LAMBDA x : x.risk_level = level))
  IN  [country_concentration |-> countries_analysis,
       highest_concentration |-> Take(countries_analysis, 1),
       concentration_summary |-> [high_risk_countries |-> count("high"),
                                  medium_risk_countries |-> count("medium"),
                                  low_risk_countries |-> count("low")]]

FactorOrder == <<"supplier_diversity", "geographical_diversity", "component_criticality",
                 "tariff_vulnerability", "alternative_sources">>

\* min(resilience['factors'].items(), key=score): the first lowest factor
LowestFactor(factors) ==
  FactorOrder[CHOOSE i \in 1..Len(FactorOrder) :
                /\ \A j \in 1..Len(FactorOrder) :
                     factors[FactorOrder[j]].score >= factors[FactorOrder[i]].score
                /\ \A j \in 1..(i - 1) :
                     factors[FactorOrder[j]].score > factors[FactorOrder[i]].score]

Risk(risk_type, priority) == [risk_type |-> risk_type, priority |-> priority]

\* InsightExtractor.generate_summary_report
generate_summary_report(G, company_id) ==
  LET TopRisks(score, ncritical, nsingle, nhigh, ntariff) ==
        SortDesc(
          When(score < 600, Risk("low_resilience", "high"))
          \o When(ncritical > 0,
                  Risk("critical_components", IF ncritical > 5 THEN "high" ELSE "medium"))
          \o When(nsingle > 0, Risk("single_points", IF nsingle > 3 THEN "high" ELSE "medium"))
          \o When(nhigh > 0,
                  Risk("geographical_concentration", IF nhigh > 1 THEN "high" ELSE "medium"))
          \o When(ntariff > 0,
                  Risk("tariff_vulnerability", IF ntariff > 10 THEN "high" ELSE "medium")),
          LAMBDA r : 0 - PriorityRank(r))
      Strategic(score, factors, single, nhigh, ntariff) ==
        SortDesc(
          When(score < 700,
               [category |-> "resilience",
                focus |-> LowestFactor(factors),
                priority |-> IF score < 600 THEN "high" ELSE "medium"])
          \o When(single > 0,
                  [category |-> "diversification", focus |-> "single_supplier_components",
                   priority |-> IF single > 5 THEN "high" ELSE "medium"])
          \o When(nhigh > 0,
                  [category |-> "geographical", focus |-> "country", priority |-> "high"])
          \o When(ntariff > 0,
                  [category |-> "tariff", focus |-> "components", priority |-> "medium"])
          \o <<[category |-> "monitoring", focus |-> "system", priority |-> "medium"]>>,
          LAMBDA r : 0 - PriorityRank(r))
      Report(resilience, critical_components, single_points, ntariff,
             high_risk_countries, highest_concentration) ==
        \* resilience['metrics'], then graph.nodes[company_id], then
        \* resilience['risk_level'] are the subscripts that can fail
        IF "metrics" \notin DOMAIN resilience THEN Raise("KeyError", "metrics")
        ELSE IF company_id # NoneId /\ company_id \notin G.nodes
        THEN Raise("KeyError", company_id)
        ELSE IF "risk_level" \notin DOMAIN resilience THEN Raise("KeyError", "risk_level")
        ELSE
          [report_for |-> company_id,
           executive_summary |->
             [resilience_score |-> resilience.total_resilience_score,
              risk_level |-> resilience.risk_level,
              critical_components_count |-> Len(critical_components),
              single_points_count |-> Len(single_points),
              affected_by_tariffs_count |-> ntariff,
              top_risks |-> TopRisks(resilience.total_resilience_score,
                                     Len(critical_components), Len(single_points),
                                     Len(high_risk_countries), ntariff)],
           key_metrics |-> resilience.metrics,
           critical_components |-> Take(critical_components, 10),
           single_points_of_failure |-> Take(single_points, 10),
           geographical_analysis |->
             [high_risk_countries |-> high_risk_countries,
              highest_concentration |-> highest_concentration],
           strategic_recommendations |->
             Strategic(resilience.total_resilience_score, resilience.factors,
                       resilience.metrics.single_supplier_components,
                       Len(high_risk_countries), ntariff)]
      Compile(resilience, geo_concentration) ==
        Report(resilience,
               find_critical_components(G, company_id, 70),
               detect_single_points_of_failure(G),
               assess_tariff_vulnerability(G, NoneId).affected_components_count,
               SelectSeq(geo_concentration.country_concentration,
                         LAMBDA c : c.risk_level = "high"),
               geo_concentration.highest_concentration)
  IN  Compile(calculate_resilience_score(G, company_id),
              identify_geographical_concentration(G))

\* recommendation_generator.generate_optimization_recommendations; absent
\* keys read as their .get defaults
generate_optimization_recommendations(resilience_analysis) ==
  LET factors == Get(resilience_analysis, "factors", <<>>)
      metrics == Get(resilience_analysis, "metrics", [critical_components |-> 0])
      score(name) == IF name \in DOMAIN factors THEN factors[name].score ELSE 1000
  IN  When(score("supplier_diversity") < 700, Rec("supplier_diversification", "high"))
      \o When(score("geographical_diversity") < 600, Rec("geographical_diversification", "medium"))
      \o When(metrics.critical_components > 0, Rec("critical_component_strategy", "high"))
      \o <<Rec("inventory_optimization", "medium"), Rec("supply_chain_visibility", "medium")>>
      \o When(score("component_criticality") < 600, Rec("alternative_designs", "medium"))

\* PredictionEngine.generate_recommendations
generate_recommendations(G, company_id) ==
  LET Results(resilience) ==
        IF "risk_level" \notin DOMAIN resilience THEN Raise("KeyError", "risk_level")
        ELSE IF "metrics" \notin DOMAIN resilience THEN Raise("KeyError", "metrics")
        ELSE
          [recommendation_type |-> "optimization",
           company_id |-> company_id,
           resilience_score |-> resilience.total_resilience_score,
           risk_level |-> resilience.risk_level,
           recommendations |-> generate_optimization_recommendations(resilience),
           resilience_factors |-> resilience.factors,
           metrics |-> resilience.metrics]
  IN  Results(calculate_resilience_score(G, company_id))

(***************************************************************************)
(* State.  Sequential use: one ScenarioModeler (and the analyzer of the    *)
(* caller, bound to the original graph) receiving whole calls one after    *)
(* the other.                                                              *)
(*   heap      graph objects: "orig" the caller's graph, "work" the        *)
(*             modeler's current working copy (an unreferenced old copy    *)
(*             is garbage, so one cell holds the live one)                 *)
(*   modeler   the ScenarioModeler's fields                                *)
(*   call      the last call made, result what it returned                 *)
(* Concurrent use (SpecPar): theap, modelers, pc, local, tresult.          *)
(***************************************************************************)
VARIABLES heap, modeler, call, result, theap, modelers, pc, local, tresult

seqVars == <<heap, modeler, call, result>>
parVars == <<theap, modelers, pc, local, tresult>>
vars == <<heap, modeler, call, result, theap, modelers, pc, local, tresult>>

Call(op, args) == [op |-> op, args |-> args]
NoCall == Call("none", <<>>)
NoResult == [scenario_type |-> "none"]

\* ---- graphs the analysis starts from ----
Category == [c \in Components |-> IF c = "c1" THEN "Memory Chip" ELSE "Display"]
FirstSuppliers(n) == {SupplierOrder[i] : i \in 1..n}
BaseNodes == Companies \cup Products \cup {"c1", "c2"} \cup CountryIds

\* a product line of one company: p1 and p2 of co1; co2 makes nothing
Graph(contains, sup1, sup2, origin1, origin2, crit1, crit2, tv1, tv2) ==
  MkGraph(BaseNodes \cup sup1 \cup sup2 \cup {"s1", "s2"},
          [c \in Components |-> IF c = "c1" THEN crit1 ELSE crit2],
          [c \in Components |-> IF c = "c1" THEN tv1 ELSE tv2],
          Category,
          contains,
          {<<s, "c1">> : s \in sup1} \cup {<<s, "c2">> : s \in sup2},
          {<<"c1", k>> : k \in origin1} \cup {<<"c2", k>> : k \in origin2},
          {<<"co1", p>> : p \in Products})

ContainsChoices ==
  { {<<"p1", "c1">>},
    {<<"p1", "c1">>, <<"p2", "c2">>},
    {<<"p1", "c1">>, <<"p1", "c2">>, <<"p2", "c2">>} }

ScenarioGraphs ==
  { Graph(contains, sup1, {"s2"}, {"country_china"}, {"country_vietnam"},
          crit1, FALSE, FALSE, tv2) :
      contains \in ContainsChoices, sup1 \in {{"s1"}, {"s1", "s2"}},
      crit1 \in BOOLEAN, tv2 \in BOOLEAN }
  \cup { Graph({<<"p2", "c1">>, <<"p1", "c2">>} \cup more, {"s1"}, {"s1"},
               {"country_china"}, {"country_china"}, FALSE, TRUE, FALSE, FALSE) :
           more \in {{}, {<<"p1", "c1">>}} }

\* ---- the calls made ----
TariffCalls ==
  { Call("model_tariff_change", <<country, 25, types>>) :
      country \in {"China", "Vietnam", "Nowhereland"}, types \in {AnyType, {"Display"}} }
DisruptionCalls ==
  { Call("model_supplier_disruption", <<supplier_id, level, 12>>) :
      supplier_id \in {"s1", "s2", "s9"}, level \in {"complete", "partial"} }
  \cup { Call("model_supplier_disruption", <<"s2", level, months>>) :
           level \in {"complete", "partial"}, months \in {6, 18} }
GeopoliticalCalls ==
  { Call("model_geopolitical_event", <<country, "trade_war", "high", 12>>) :
      country \in {"China", "Vietnam", "Nowhereland"} }
ShortageCalls ==
  { Call("model_component_shortage", <<component_type, "severe", 6>>) :
      component_type \in {"chip", "battery"} }
  \cup { Call("model_component_shortage", <<"chip", shortage_level, 6>>) :
           shortage_level \in {"moderate", "mild"} }

\* the call c made on the modeler of world W
Apply(W, c) ==
  CASE c.op = "model_tariff_change" ->
         model_tariff_change(W, "work", c.args[1], c.args[2], c.args[3])
    [] c.op = "model_supplier_disruption" ->
         model_supplier_disruption(W, "work", c.args[1], c.args[2], c.args[3])
    [] c.op = "model_geopolitical_event" ->
         modeler_geopolitical_event(W, c.args[1], c.args[2], c.args[3], c.args[4])
    [] c.op = "model_component_shortage" ->
         modeler_component_shortage(W, c.args[1], c.args[2], c.args[3])
    [] c.op = "combine_scenarios" ->
         combine_scenarios(W, "work", c.args[1])

\* a newly constructed ScenarioModeler over graph G
Fresh(G, analyzerGiven) ==
  ScenarioModeler_init([o \in {"orig", "work"} |-> G], "orig", "work", analyzerGiven)

\* what call c returns as the first call on a fresh modeler over G
FreshResult(G, c) == Apply(Fresh(G, FALSE), c).result

\* scenario lists handed to combine_scenarios: the result just obtained, or
\* a tariff result and a disruption result, or two disruption results, or two
\* geopolitical results of different severity in either order, obtained from
\* fresh modelers, or no result at all
CombineInputs ==
  (IF result.scenario_type \in {"tariff_change", "supplier_disruption",
                                "geopolitical_event", "component_shortage"}
   THEN {<<result>>} ELSE {})
  \cup {<<model_tariff_change(Fresh(heap["orig"], FALSE), "work", "China", 25, AnyType).result,
          model_supplier_disruption(Fresh(heap["orig"], FALSE), "work", "s1", level, 12).result>> :
          level \in {"complete", "partial"}}
  \cup {<<model_supplier_disruption(Fresh(heap["orig"], FALSE), "work", "s2", "partial", 12).result,
          model_supplier_disruption(Fresh(heap["orig"], FALSE), "work", "s1", "partial", 12).result>>}
  \cup {<<modeler_geopolitical_event(Fresh(heap["orig"], FALSE), "China", "trade_war", severity[1], 12).result,
          modeler_geopolitical_event(Fresh(heap["orig"], FALSE), "China", "trade_war", severity[2], 12).result>> :
          severity \in {<<"high", "low">>, <<"low", "high">>}}
  \cup {<<>>}

NoThreads == [t \in {} |-> 0]

InitPar0 ==
  /\ theap = NoThreads
  /\ modelers = NoThreads
  /\ pc = NoThreads
  /\ local = NoThreads
  /\ tresult = NoThreads

InitOver(graphs) ==
  /\ \E G \in graphs, analyzerGiven \in BOOLEAN :
       LET W == Fresh(G, analyzerGiven)
       IN  heap = W.heap /\ modeler = W.m
  /\ call = NoCall
  /\ result = NoResult
  /\ InitPar0

Init == InitOver(ScenarioGraphs)

World == [heap |-> heap, m |-> modeler]

TariffChange ==
  \E c \in TariffCalls :
    \E r \in {model_tariff_change(World, "work", c.args[1], c.args[2], c.args[3])} :
      /\ heap' = r.W.heap
      /\ modeler' = r.W.m
      /\ call' = c
      /\ result' = r.result
      /\ UNCHANGED parVars

SupplierDisruption ==
  \E c \in DisruptionCalls :
    \E r \in {model_supplier_disruption(World, "work", c.args[1], c.args[2], c.args[3])} :
      /\ heap' = r.W.heap
      /\ modeler' = r.W.m
      /\ call' = c
      /\ result' = r.result
      /\ UNCHANGED parVars

GeopoliticalEvent ==
  \E c \in GeopoliticalCalls :
    \E r \in {modeler_geopolitical_event(World, c.args[1], c.args[2], c.args[3], c.args[4])} :
      /\ heap' = r.W.heap
      /\ modeler' = r.W.m
      /\ call' = c
      /\ result' = r.result
      /\ UNCHANGED parVars

ComponentShortage ==
  \E c \in ShortageCalls :
    \E r \in {modeler_component_shortage(World, c.args[1], c.args[2], c.args[3])} :
      /\ heap' = r.W.heap
      /\ modeler' = r.W.m
      /\ call' = c
      /\ result' = r.result
      /\ UNCHANGED parVars

CombineScenarios ==
  \E scenarios \in CombineInputs :
    \E r \in {combine_scenarios(World, "work", scenarios)} :
      /\ heap' = r.W.heap
      /\ modeler' = r.W.m
      /\ call' = Call("combine_scenarios", <<scenarios>>)
      /\ result' = r.result
      /\ UNCHANGED parVars

Next ==
  \/ TariffChange
  \/ SupplierDisruption
  \/ GeopoliticalEvent
  \/ ComponentShortage
  \/ CombineScenarios

Spec == Init /\ [][Next]_vars

(***************************************************************************)
(* Properties of the sequential behaviour (Spec)                           *)
(***************************************************************************)
ScenarioOps == {"model_tariff_change", "model_supplier_disruption",
                "model_geopolitical_event", "model_component_shortage",
                "combine_scenarios"}
OriginalScore == calculate_resilience_score(heap["orig"], NoneId).total_resilience_score

\* C1: no call changes the original graph G the modeler was constructed
\* with: its nodes, attributes and edges stay as they were, so after a
\* 'complete' disruption the supplier's SUPPLIES edges are still in G.
C1_OriginalGraphNeverMutated ==
  [][/\ heap'["orig"] = heap["orig"]
     /\ modeler'.original_graph = modeler.original_graph]_vars

\* a 'complete' disruption has removed edges from the working copy while the
\* original still has them
C1_Witness ==
  /\ call.op = "model_supplier_disruption"
  /\ call.args[2] = "complete"
  /\ modeler.graph # modeler.original_graph
  /\ \E e \in heap["orig"].supplies : e[1] = call.args[1] /\ e \notin heap[modeler.graph].supplies

\* C2: whatever calls came before, the resilience_impact.before of a scenario
\* result is the resilience score of the unmutated original graph.
C2_BeforeIsOriginalScore ==
  (call.op \in ScenarioOps /\ "resilience_impact" \in DOMAIN result)
    => result.resilience_impact.before = OriginalScore

\* C3: the result of a scenario call made after any earlier calls equals the
\* result of the same call made first on a freshly constructed modeler.
C3_ResultIndependentOfHistory ==
  call.op \in ScenarioOps => result = FreshResult(heap["orig"], call)

\* C5: a tariff change that matches no component returns the zero-impact
\* result: no components, no products, change 0, after = before, average
\* price increase 0 and no recommendations.
C5_NoMatchZeroImpact ==
  (/\ call.op = "model_tariff_change"
   /\ \A c \in Components \cap heap["orig"].nodes :
        \/ call.args[1] \notin Range(get_component_countries(heap["orig"], c))
        \/ ~(call.args[3] = AnyType \/ heap["orig"].category[c] \in call.args[3]))
    => /\ result.scenario_type = "tariff_change"
       /\ result.affected_components = <<>>
       /\ result.affected_products = <<>>
       /\ result.resilience_impact.change = 0
       /\ result.resilience_impact.after = result.resilience_impact.before
       /\ result.price_impacts.average_product_price_increase = 0
       /\ result.recommendations = <<>>

\* a tariff on a country no component originates from has returned
C5_Witness ==
  /\ call.op = "model_tariff_change"
  /\ call.args[1] = "Nowhereland"
  /\ result.affected_components = <<>>
  /\ result.resilience_impact.change = 0

\* C6: a disruption of a supplier id that is not in the graph raises nothing
\* and returns a 'supplier_disruption' result with empty component and
\* product lists and an explanatory field; the working copy equals the
\* original.
C6_UnknownSupplierNotFound ==
  (call.op = "model_supplier_disruption" /\ call.args[1] \notin heap["orig"].nodes)
    => /\ ~Raised(result)
       /\ result.scenario_type = "supplier_disruption"
       /\ result.affected_components = <<>>
       /\ result.affected_products = <<>>
       /\ "impact_assessment" \in DOMAIN result
       /\ heap[modeler.graph] = heap["orig"]

\* the unknown supplier "s9" has been disrupted
C6_Witness ==
  /\ call.op = "model_supplier_disruption"
  /\ call.args[1] = "s9"
  /\ call.args[1] \notin heap["orig"].nodes
  /\ result.impact_assessment = "Supplier not found in graph"

(***************************************************************************)
(* SpecAnalyzer: the read-only queries of the analyzer, the summary report *)
(* and the optimization recommendations, over graphs with up to            *)
(* MaxSuppliers suppliers of component c1 and with or without products;    *)
(* component c2 is critical and tariff-vulnerable with one supplier and    *)
(* one origin country.                                                     *)
(***************************************************************************)
\* the same supply chain before any product was entered
Productless(G) == [G EXCEPT !.nodes = @ \ Products, !.contains = {}, !.manufactures = {}]

OriginChoices == { {}, {"country_china"}, {"country_china", "country_vietnam"}, CountryIds }

\* a wider product line: p1 contains c1..c6, p2 the first n2 of them; c1 has
\* one supplier or two, every other component two; only c1 has an origin
WideGraphs ==
  { MkGraph(Companies \cup Products \cup Components \cup CountryIds \cup FirstSuppliers(5),
            [c \in Components |-> crit],
            [c \in Components |-> FALSE],
            Category,
            {<<"p1", c>> : c \in Components}
              \cup {<<"p2", ComponentOrder[i]>> : i \in 1..n2},
            {<<s, "c1">> : s \in sup1}
              \cup {<<"s4", "c3">>, <<"s5", "c3">>}
              \cup {<<s, c>> : s \in {"s2", "s3"}, c \in {"c2", "c4", "c5", "c6"}},
            {<<"c1", "country_china">>},
            {<<"co1", p>> : p \in Products}) :
      n2 \in 4..5, sup1 \in {{"s1"}, {"s1", "s2"}}, crit \in BOOLEAN }

AnalyzerGraphs ==
  LET full == { Graph(contains, FirstSuppliers(n), {"s2"}, origin1, {"country_vietnam"},
                      crit1, TRUE, tv1, TRUE) :
                  contains \in ContainsChoices, n \in 0..MaxSuppliers,
                  origin1 \in OriginChoices, crit1 \in BOOLEAN, tv1 \in BOOLEAN }
  IN  full \cup {Productless(G) : G \in {g \in full : g.contains = {<<"p1", "c1">>}}}
           \cup WideGraphs

\* company ids asked about: none, a manufacturer, a company without products,
\* an id that is not in the graph
CompanyArgs == {NoneId, "co1", "co2", "nobody"}
Thresholds == {0, 50, 70, 90}

InitAnalyzer ==
  /\ \E G \in AnalyzerGraphs :
       LET W == Fresh(G, TRUE)
       IN  heap = W.heap /\ modeler = W.m
  /\ call = NoCall
  /\ result = NoResult
  /\ InitPar0

CalculateResilienceScore ==
  \E company_id \in CompanyArgs :
    /\ call' = Call("calculate_resilience_score", <<company_id>>)
    /\ result' = calculate_resilience_score(heap["orig"], company_id)
    /\ UNCHANGED <<heap, modeler>>
    /\ UNCHANGED parVars

FindCriticalComponents ==
  \E manufacturer_id \in CompanyArgs, threshold \in Thresholds :
    /\ call' = Call("find_critical_components", <<manufacturer_id, threshold>>)
    /\ result' = find_critical_components(heap["orig"], manufacturer_id, threshold)
    /\ UNCHANGED <<heap, modeler>>
    /\ UNCHANGED parVars

GenerateSummaryReport ==
  \E company_id \in CompanyArgs :
    /\ call' = Call("generate_summary_report", <<company_id>>)
    /\ result' = generate_summary_report(heap["orig"], company_id)
    /\ UNCHANGED <<heap, modeler>>
    /\ UNCHANGED parVars

GenerateRecommendations ==
  \E company_id \in CompanyArgs :
    /\ call' = Call("generate_recommendations", <<company_id>>)
    /\ result' = generate_recommendations(heap["orig"], company_id)
    /\ UNCHANGED <<heap, modeler>>
    /\ UNCHANGED parVars

DetectSinglePointsOfFailure ==
  /\ call' = Call("detect_single_points_of_failure", <<>>)
  /\ result' = detect_single_points_of_failure(heap["orig"])
  /\ UNCHANGED <<heap, modeler>>
  /\ UNCHANGED parVars

IdentifyGeographicalConcentration ==
  /\ call' = Call("identify_geographical_concentration", <<>>)
  /\ result' = identify_geographical_concentration(heap["orig"])
  /\ UNCHANGED <<heap, modeler>>
  /\ UNCHANGED parVars

NextAnalyzer ==
  \/ CalculateResilienceScore
  \/ FindCriticalComponents
  \/ GenerateSummaryReport
  \/ GenerateRecommendations
  \/ DetectSinglePointsOfFailure
  \/ IdentifyGeographicalConcentration

SpecAnalyzer == InitAnalyzer /\ [][NextAnalyzer]_vars

\* C7: with no qualifying product calculate_resilience_score returns score 0
\* together with a well-defined risk_level and metrics entry.
C7_NoProductsWellDefined ==
  (/\ call.op = "calculate_resilience_score"
   /\ ProductsToAnalyze(heap["orig"], call.args[1]) = <<>>)
    => /\ result.total_resilience_score = 0
       /\ "risk_level" \in DOMAIN result
       /\ "metrics" \in DOMAIN result

\* C8: generate_summary_report(company_id) and generate_recommendations(
\* company_id) raise nothing, also when the company is absent from the graph
\* or manufactures no product.
C8_ReportsNeverRaise ==
  call.op \in {"generate_summary_report", "generate_recommendations"} => ~Raised(result)

\* C9: every criticality score lies in [0, 1]; it does not increase when the
\* component gets more suppliers (bands 0 -> 1.0, 1 -> 0.9, 2..3 -> 0.6,
\* >= 4 -> 0.2, weight 0.20, i.e. 0.02, 0.08 and 0.16 below the score without
\* suppliers, up to rounding); a critical, tariff-vulnerable component with
\* one supplier and one origin country scores 0.90.
C9_CriticalityRangeAndBands ==
  call.op = "find_critical_components" =>
    \A i \in 1..Len(result) :
      LET G == heap["orig"]
          c == result[i].component_id
          score == result[i].criticality_score
          n == Cardinality(SuppliersOf(G, c))
          unsupplied == calculate_component_criticality(
                          [G EXCEPT !.supplies = {e \in @ : e[2] # c}], c)
          drop == IF n = 0 THEN 0 ELSE IF n = 1 THEN 2 ELSE IF n <= 3 THEN 8 ELSE 16
      IN  /\ score >= 0 /\ score <= 100
          /\ \A s \in SuppliersOf(G, c) :
               calculate_component_criticality([G EXCEPT !.supplies = @ \ {<<s, c>>}], c) >= score
          /\ unsupplied - score >= drop - 1
          /\ unsupplied - score <= drop + 1
          /\ (/\ G.critical[c] /\ G.tariff_vulnerable[c]
              /\ n = 1 /\ Len(get_component_countries(G, c)) = 1) => score = 90

\* a component with at least four suppliers has been scored, and so has the
\* critical, tariff-vulnerable, single-supplier, single-country example
C9_Witness ==
  /\ call.op = "find_critical_components"
  /\ \E i \in 1..Len(result) : Len(result[i].suppliers) >= 4
  /\ \E i \in 1..Len(result) :
       /\ heap["orig"].critical[result[i].component_id]
       /\ result[i].tariff_vulnerable
       /\ Len(result[i].suppliers) = 1 /\ Len(result[i].countries) = 1
       /\ result[i].criticality_score = 90

PairIndex(p, c) ==
  LET ip == CHOOSE k \in 1..Len(ProductOrder) : ProductOrder[k] = p
      ic == CHOOSE k \in 1..Len(ComponentOrder) : ComponentOrder[k] = c
  IN  ip * (Len(ComponentOrder) + 1) + ic

\* C10: find_critical_components(None, threshold) returns exactly one record
\* for each CONTAINS (product, component) pair whose score is >= threshold
\* (every pair for threshold 0.0), sorted by non-increasing score, records of
\* equal score staying in discovery order.
C10_OneRecordPerContainsPair ==
  (call.op = "find_critical_components" /\ call.args[1] = NoneId) =>
    LET G == heap["orig"]
        pairs == {e \in G.contains : calculate_component_criticality(G, e[2]) >= call.args[2]}
        pair(i) == <<result[i].product_id, result[i].component_id>>
    IN  /\ Len(result) = Cardinality(pairs)
        /\ {pair(i) : i \in 1..Len(result)} = pairs
        /\ call.args[2] = 0 => Len(result) = Cardinality(G.contains)
        /\ \A i \in 1..Len(result) :
             result[i].criticality_score = calculate_component_criticality(G, result[i].component_id)
        /\ \A i, j \in 1..Len(result) :
             i < j => \/ result[i].criticality_score > result[j].criticality_score
                      \/ /\ result[i].criticality_score = result[j].criticality_score
                         /\ PairIndex(pair(i)[1], pair(i)[2]) < PairIndex(pair(j)[1], pair(j)[2])

\* a threshold has dropped one of three pairs and kept two records of equal
\* score, in discovery order
C10_Witness ==
  /\ call.op = "find_critical_components"
  /\ call.args[1] = NoneId
  /\ call.args[2] > 0
  /\ Len(result) = 2
  /\ Cardinality(heap["orig"].contains) = 3
  /\ result[1].criticality_score = result[2].criticality_score
  /\ result[1].product_id = "p1" /\ result[2].product_id = "p2"

(***************************************************************************)
(* Two scenario calls interleaved at statement granularity.  Thread A runs *)
(* model_tariff_change, thread B model_supplier_disruption, on the same    *)
(* ScenarioModeler or on two modelers built over the same original graph.  *)
(* theap holds the graph objects, modelers the fields of each modeler,     *)
(* local[t] the local variables of thread t's call, pc[t] its position.    *)
(* heap and modeler keep the graph as it was handed to the constructor.    *)
(***************************************************************************)
Threads == {"A", "B"}

ParGraphs == {G \in ScenarioGraphs : ~G.tariff_vulnerable["c2"]}
ParTariffCalls ==
  { Call("model_tariff_change", <<country, 25, AnyType>>) :
      country \in {"China", "Nowhereland"} }
ParDisruptionCalls ==
  { Call("model_supplier_disruption", <<"s1", level, 12>>) : level \in {"complete", "partial"} }
    \cup {Call("model_supplier_disruption", <<"s9", "complete", 12>>)}

\* the locals of a call that has not started
Locals(self, copy, c) ==
  [self |-> self, copy |-> copy, call |-> c,
   iter |-> "orig", i |-> 0, ids |-> <<>>, new |-> 0, products |-> <<>>]

InitPar ==
  \E G \in ParGraphs, shared \in BOOLEAN, ca \in ParTariffCalls, cb \in ParDisruptionCalls :
    \E h \in {[o \in {"orig", "work", "work2"} |-> G]} :
      /\ heap = Fresh(G, FALSE).heap
      /\ modeler = Fresh(G, FALSE).m
      /\ call = NoCall
      /\ result = NoResult
      /\ theap = h
      /\ modelers = [m \in {"m1", "m2"} |->
                       ScenarioModeler_init(h, "orig", IF m = "m1" THEN "work" ELSE "work2",
                                            FALSE).m]
      /\ pc = [t \in Threads |-> "reset_graph"]
      /\ local = [t \in Threads |->
                    IF t = "A" THEN Locals("m1", "copyA", ca)
                    ELSE Locals(IF shared THEN "m1" ELSE "m2", "copyB", cb)]
      /\ tresult = [t \in Threads |-> NoResult]

\* the modeler thread t calls, self.graph as it reads it now, and the world
\* its statements act on
Self(t) == modelers[local[t].self]
GraphOf(t) == theap[Self(t).graph]
ParWorld(t) == [heap |-> theap, m |-> Self(t)]
Base(t) == Self(t).base_resilience.total_resilience_score

\* self.graph = copy.deepcopy(self.original_graph)
ResetGraph ==
  \E t \in Threads :
    /\ pc[t] = "reset_graph"
    /\ \E r \in {reset_graph(ParWorld(t), local[t].copy)} :
         /\ theap' = r.heap
         /\ modelers' = [modelers EXCEPT ![local[t].self] = r.m]
    /\ pc' = [pc EXCEPT ![t] = "reset_analyzer"]
    /\ UNCHANGED <<local, tresult>>
    /\ UNCHANGED seqVars

\* self.analyzer = SupplyChainAnalyzer(self.graph)
ResetAnalyzer ==
  \E t \in Threads :
    /\ pc[t] = "reset_analyzer"
    /\ modelers' = [modelers EXCEPT ![local[t].self] = reset_analyzer(ParWorld(t)).m]
    /\ pc' = [pc EXCEPT ![t] = IF local[t].call.op = "model_tariff_change"
                               THEN "tariff_loop" ELSE "check_supplier"]
    /\ UNCHANGED <<theap, local, tresult>>
    /\ UNCHANGED seqVars

\* the component nodes of the graph object a thread's for loop iterates
IterNodes(t) == ComponentNodes(theap[local[t].iter])

\* where the tariff loop goes once node i - 1 is dealt with
AfterNode(nodes, i) == IF i <= Len(nodes) THEN "tariff_test" ELSE "tariff_assess"

\* for node_id, node_data in self.graph.nodes(data=True): the iterator is
\* taken from the object self.graph refers to at this moment
TariffLoopStart ==
  \E t \in Threads :
    /\ pc[t] = "tariff_loop"
    /\ local' = [local EXCEPT ![t].iter = Self(t).graph, ![t].i = 1, ![t].ids = <<>>]
    /\ pc' = [pc EXCEPT ![t] = AfterNode(ComponentNodes(GraphOf(t)), 1)]
    /\ UNCHANGED <<theap, modelers, tresult>>
    /\ UNCHANGED seqVars

\* the tests of one iteration: self._get_component_countries(node_id) reads
\* self.graph as it is now
TariffTest ==
  \E t \in Threads :
    /\ pc[t] = "tariff_test"
    /\ IF IterNodes(t)[local[t].i]
            \in Range(TariffMatches(GraphOf(t), local[t].call.args[1], local[t].call.args[3]))
       THEN /\ pc' = [pc EXCEPT ![t] = "tariff_mark"]
            /\ UNCHANGED local
       ELSE /\ pc' = [pc EXCEPT ![t] = AfterNode(IterNodes(t), local[t].i + 1)]
            /\ local' = [local EXCEPT ![t].i = @ + 1]
    /\ UNCHANGED <<theap, modelers, tresult>>
    /\ UNCHANGED seqVars

\* self.graph.nodes[node_id]['tariff_vulnerable'] = True, on the object
\* self.graph refers to now, and the append to affected_components
TariffMark ==
  \E t \in Threads :
    /\ pc[t] = "tariff_mark"
    /\ \E node \in {IterNodes(t)[local[t].i]} :
         /\ theap' = [theap EXCEPT ![Self(t).graph].tariff_vulnerable =
                                      SetFlags(@, {node}, TRUE)]
         /\ local' = [local EXCEPT ![t].ids = Append(@, node), ![t].i = @ + 1]
    /\ pc' = [pc EXCEPT ![t] = AfterNode(IterNodes(t), local[t].i + 1)]
    /\ UNCHANGED <<modelers, tresult>>
    /\ UNCHANGED seqVars

\* if affected_components: new_resilience = self.analyzer.calculate_resilience_score()
\* else: the zero-impact result
TariffAssess ==
  \E t \in Threads :
    /\ pc[t] = "tariff_assess"
    /\ IF local[t].ids = <<>>
       THEN /\ tresult' = [tresult EXCEPT ![t] =
                             ZeroImpactTariffResult(Base(t), local[t].call.args[1],
                                                    local[t].call.args[2])]
            /\ pc' = [pc EXCEPT ![t] = "done"]
            /\ UNCHANGED local
       ELSE /\ local' = [local EXCEPT ![t].new =
                           calculate_resilience_score(theap[Self(t).analyzer], NoneId)
                             .total_resilience_score]
            /\ pc' = [pc EXCEPT ![t] = "tariff_products"]
            /\ UNCHANGED tresult
    /\ UNCHANGED <<theap, modelers>>
    /\ UNCHANGED seqVars

\* affected_products = self._find_affected_products(affected_components)
TariffProducts ==
  \E t \in Threads :
    /\ pc[t] = "tariff_products"
    /\ local' = [local EXCEPT ![t].products =
                   find_affected_products(
                     GraphOf(t),
                     TariffListed(theap[local[t].iter], local[t].ids, local[t].call.args[2]))]
    /\ pc' = [pc EXCEPT ![t] = "tariff_result"]
    /\ UNCHANGED <<theap, modelers, tresult>>
    /\ UNCHANGED seqVars

\* price impacts, recommendations and the result dict
TariffFinish ==
  \E t \in Threads :
    /\ pc[t] = "tariff_result"
    /\ tresult' = [tresult EXCEPT ![t] =
                     TariffAssembled(
                       Base(t), local[t].new,
                       calculate_price_impacts(
                         TariffListed(theap[local[t].iter], local[t].ids, local[t].call.args[2]),
                         local[t].products, local[t].call.args[2]),
                       local[t].call.args[1], local[t].call.args[2])]
    /\ pc' = [pc EXCEPT ![t] = "done"]
    /\ UNCHANGED <<theap, modelers, local>>
    /\ UNCHANGED seqVars

\* if supplier_id not in self.graph: return the not-found result
CheckSupplier ==
  \E t \in Threads :
    /\ pc[t] = "check_supplier"
    /\ IF ~SupplierInGraph(GraphOf(t), local[t].call.args[1])
       THEN /\ tresult' = [tresult EXCEPT ![t] =
                             UnknownSupplierResult(local[t].call.args[2], local[t].call.args[3])]
            /\ pc' = [pc EXCEPT ![t] = "done"]
       ELSE /\ pc' = [pc EXCEPT ![t] = "collect"]
            /\ UNCHANGED tresult
    /\ UNCHANGED <<theap, modelers, local>>
    /\ UNCHANGED seqVars

\* the loop over self.graph.out_edges(supplier_id): it reads SUPPLIES edges
\* and 'critical', and no statement of a tariff call writes either
Collect ==
  \E t \in Threads :
    /\ pc[t] = "collect"
    /\ local' = [local EXCEPT ![t].ids = SuppliedBy(GraphOf(t), local[t].call.args[1]),
                              ![t].iter = Self(t).graph]
    /\ pc' = [pc EXCEPT ![t] = "disruption_products"]
    /\ UNCHANGED <<theap, modelers, tresult>>
    /\ UNCHANGED seqVars

\* affected_products = self._find_affected_products(affected_components)
DisruptionProducts ==
  \E t \in Threads :
    /\ pc[t] = "disruption_products"
    /\ local' = [local EXCEPT ![t].products =
                   find_affected_products(
                     GraphOf(t), DisruptionListed(theap[local[t].iter], local[t].ids)),
                              ![t].i = 1]
    /\ pc' = [pc EXCEPT ![t] = IF local[t].ids = <<>> THEN "disruption_rescore" ELSE "disrupt"]
    /\ UNCHANGED <<theap, modelers, tresult>>
    /\ UNCHANGED seqVars

\* one iteration of the mutation loop, on the object self.graph refers to now
Disrupt ==
  \E t \in Threads :
    /\ pc[t] = "disrupt"
    /\ theap' = [theap EXCEPT ![Self(t).graph] =
                   DisruptWorkingCopy(@, local[t].call.args[1],
                                      <<local[t].ids[local[t].i]>>, local[t].call.args[2])]
    /\ local' = [local EXCEPT ![t].i = @ + 1]
    /\ pc' = [pc EXCEPT ![t] = IF local[t].i + 1 <= Len(local[t].ids)
                               THEN "disrupt" ELSE "disruption_rescore"]
    /\ UNCHANGED <<modelers, tresult>>
    /\ UNCHANGED seqVars

\* new_resilience = self.analyzer.calculate_resilience_score()
DisruptionRescore ==
  \E t \in Threads :
    /\ pc[t] = "disruption_rescore"
    /\ local' = [local EXCEPT ![t].new =
                   calculate_resilience_score(theap[Self(t).analyzer], NoneId)
                     .total_resilience_score]
    /\ pc' = [pc EXCEPT ![t] = "disruption_result"]
    /\ UNCHANGED <<theap, modelers, tresult>>
    /\ UNCHANGED seqVars

\* lead time impacts, recommendations and the result dict
DisruptionFinish ==
  \E t \in Threads :
    /\ pc[t] = "disruption_result"
    /\ tresult' = [tresult EXCEPT ![t] =
                     DisruptionAssembled(
                       Base(t), local[t].new,
                       estimate_lead_time_impacts(
                         DisruptionListed(theap[local[t].iter], local[t].ids),
                         local[t].products, SeverityOf(local[t].call.args[2]),
                         local[t].call.args[3]),
                       local[t].call.args[1], local[t].call.args[2], local[t].call.args[3])]
    /\ pc' = [pc EXCEPT ![t] = "done"]
    /\ UNCHANGED <<theap, modelers, local>>
    /\ UNCHANGED seqVars

NextPar ==
  \/ ResetGraph
  \/ ResetAnalyzer
  \/ TariffLoopStart
  \/ TariffTest
  \/ TariffMark
  \/ TariffAssess
  \/ TariffProducts
  \/ TariffFinish
  \/ CheckSupplier
  \/ Collect
  \/ DisruptionProducts
  \/ Disrupt
  \/ DisruptionRescore
  \/ DisruptionFinish

SpecPar == InitPar /\ [][NextPar]_vars

\* C4: two scenario calls interleaved at statement granularity on the same
\* ScenarioModeler each return what the call returns when it runs alone on a
\* modeler over the same original graph.
C4_InterleavedCallsAsAlone ==
  \A t \in DOMAIN pc :
    pc[t] = "done" => tresult[t] = FreshResult(heap["orig"], local[t].call)

\* the same for two calls that each run on a modeler of their own
SeparateModelers == \A t \in DOMAIN local, u \in DOMAIN local : t # u => local[t].self # local[u].self
C4_SeparateModelersAsAlone ==
  SeparateModelers =>
    /\ C4_InterleavedCallsAsAlone
    /\ \A t \in DOMAIN pc : theap["orig"] = heap["orig"]

\* the records of one type a detection result holds for component c
RecordsOf(records, type, c) ==
  {i \in 1..Len(records) : records[i].type = type /\ records[i].component_id = c}

\* C11: detect_single_points_of_failure returns, for every component some
\* product contains, one single_supplier record iff it has exactly one SUPPLIES
\* in-edge and one single_country record iff it has exactly one origin country;
\* no record for a component no product contains; risk_level is high iff the
\* component is critical, else medium.
C11_SinglePointsOfFailure ==
  call.op = "detect_single_points_of_failure" =>
    LET G == heap["orig"]
        inUse(c) == \E e \in G.contains : e[2] = c
        suppliers(c) == {e \in G.supplies : e[2] = c}
        origins(c) == {e \in G.originates : e[1] = c}
    IN  /\ \A c \in Components :
             /\ Cardinality(RecordsOf(result, "single_supplier", c))
                  = IF inUse(c) /\ Cardinality(suppliers(c)) = 1 THEN 1 ELSE 0
             /\ Cardinality(RecordsOf(result, "single_country", c))
                  = IF inUse(c) /\ Cardinality(origins(c)) = 1 THEN 1 ELSE 0
        /\ \A i \in 1..Len(result) :
             /\ result[i].type \in {"single_supplier", "single_country"}
             /\ result[i].component_id \in Components
             /\ result[i].risk_level
                  = IF G.critical[result[i].component_id] THEN "high" ELSE "medium"

\* a critical in-use component with one supplier and one origin country has
\* its two records, both high, while a single-supplier component that no
\* product contains has none
C11_Witness ==
  /\ call.op = "detect_single_points_of_failure"
  /\ \E c \in Components :
       /\ \E i \in RecordsOf(result, "single_supplier", c) : result[i].risk_level = "high"
       /\ \E i \in RecordsOf(result, "single_country", c) : result[i].risk_level = "high"
  /\ \E c \in Components :
       /\ ~ \E e \in heap["orig"].contains : e[2] = c
       /\ Cardinality({e \in heap["orig"].supplies : e[2] = c}) = 1
       /\ RecordsOf(result, "single_supplier", c) = {}

\* the ids a scenario result lists as affected components
AffectedIds(scenario) ==
  {Get(scenario, "affected_components", <<>>)[i].component_id :
     i \in 1..Len(Get(scenario, "affected_components", <<>>))}

\* the entries a compound result holds for component c
EntriesOf(r, c) ==
  {i \in 1..Len(r.affected_components) : r.affected_components[i].component_id = c}

\* C12: combining a tariff result and a supplier-disruption result (partial or
\* complete) that both affect component C gives exactly one entry for C, whose
\* impact_sources holds tariff_vulnerable and a disruption marker
\* (supply_constrained or an edge-removal marker).
C12_TariffAndDisruptionTagged ==
  (/\ call.op = "combine_scenarios"
   /\ Len(call.args[1]) = 2
   /\ call.args[1][1].scenario_type = "tariff_change"
   /\ call.args[1][2].scenario_type = "supplier_disruption") =>
    \A c \in AffectedIds(call.args[1][1]) \cap AffectedIds(call.args[1][2]) :
      /\ Cardinality(EntriesOf(result, c)) = 1
      /\ \A i \in EntriesOf(result, c) :
           LET sources == result.affected_components[i].impact_sources
           IN  /\ \E k \in 1..Len(sources) : sources[k] = <<"tariff_vulnerable">>
               /\ \E k \in 1..Len(sources) :
                    /\ sources[k] # <<"tariff_vulnerable">>
                    /\ sources[k][1] # "affected_by"

\* the recommendations of all the scenario results handed to combine_scenarios
InputRecommendations(scenarios) ==
  UNION {{Get(scenarios[i], "recommendations", <<>>)[k] :
            k \in 1..Len(Get(scenarios[i], "recommendations", <<>>))} :
         i \in 1..Len(scenarios)}

Urgency(priority) == IF priority = "high" THEN 3 ELSE IF priority = "medium" THEN 2 ELSE 1

C14_TariffCountField ==
  call.op = "model_tariff_change" =>
    /\ "affected_components_count" \in DOMAIN result
    /\ result["affected_components_count"] = Len(result.affected_components)

(***************************************************************************)
(* calculate_price_impacts on its own: the affected component list holds n *)
(* components, the first product all of them (the first k critical), an    *)
(* optional second product the first m of them.                            *)
(***************************************************************************)
MaxPriceComponents == 6
PriceComponentIds == <<"c1", "c2", "c3", "c4", "c5", "c6", "c7", "c8">>
PriceTariffs == {0, 10, 25}

PriceComponents(n, t) ==
  [i \in 1..n |-> [component_id |-> PriceComponentIds[i],
                   tariff_increase |-> t,
                   component_type |-> "Memory Chip"]]

\* a product record as find_affected_products builds it
PriceProduct(product_id, n, k) ==
  [product_id |-> product_id,
   manufacturer_id |-> "co1",
   affected_components_count |-> n,
   critical_components_count |-> k,
   impact_score |-> n + k,
   affected_components |-> [i \in 1..n |-> [component_id |-> PriceComponentIds[i],
                                            critical |-> i <= k]]]

PriceProductLists(n) ==
  {<<>>}
    \cup {<<PriceProduct("p1", n, k)>> : k \in 0..n}
    \cup UNION {{<<PriceProduct("p1", n, k), PriceProduct("p2", m, IF k < m THEN k ELSE m)>> : m \in 1..n} :
                  k \in 0..n}

PriceInputs ==
  UNION {{<<PriceComponents(n, t), products, t>> :
            t \in PriceTariffs, products \in PriceProductLists(n)} :
         n \in 0..MaxPriceComponents}

InitPrice ==
  /\ \E W \in {Fresh(Graph({}, {}, {}, {}, {}, FALSE, FALSE, FALSE, FALSE), FALSE)} :
       heap = W.heap /\ modeler = W.m
  /\ \E args \in PriceInputs : call = Call("input", args)
  /\ result = NoResult
  /\ InitPar0

CalculatePriceImpacts ==
  /\ call.op = "input"
  /\ call' = Call("calculate_price_impacts", call.args)
  /\ result' = calculate_price_impacts(call.args[1], call.args[2], call.args[3])
  /\ UNCHANGED <<heap, modeler>>
  /\ UNCHANGED parVars

NextPrice == CalculatePriceImpacts

SpecPrice == InitPrice /\ [][NextPrice]_vars

\* the critical and the other entries of a product's affected components
CriticalCount(p) ==
  Cardinality({i \in 1..Len(p.affected_components) : p.affected_components[i].critical})
OtherCount(p) ==
  Cardinality({i \in 1..Len(p.affected_components) : ~p.affected_components[i].critical})

\* C15: for a tariff increase t >= 0 every product's
\* estimated_price_increase_percentage is min(sum over its affected components
\* of 0.4 t * (0.5 if critical else 0.2), t), hence within [0, t]; average, max
\* and min are taken over the products and are 0 when there is none; one
\* product with one critical component and t = 25 gives average 5.0.
\* (Values in hundredths of a percent: 0.4 t * 0.5 is 20 t, 0.4 t * 0.2 is 8 t.)
C15_PriceImpacts ==
  call.op = "calculate_price_impacts" =>
    LET t == call.args[3]
        products == result.products
        pct(i) == products[i].estimated_price_increase_percentage
        N == Len(products)
        total == SumSeq(products, LAMBDA p : p.estimated_price_increase_percentage)
    IN  /\ N = Len(call.args[2])
        /\ \A i \in 1..N :
             /\ pct(i) = IF 20 * CriticalCount(products[i]) + 8 * OtherCount(products[i]) <= 100
                        THEN 20 * t * CriticalCount(products[i]) + 8 * t * OtherCount(products[i])
                        ELSE 100 * t
             /\ pct(i) >= 0 /\ pct(i) <= 100 * t
        /\ N = 0 => /\ result.impacts.average_product_price_increase = 0
                    /\ result.impacts.max_product_price_increase = 0
                    /\ result.impacts.min_product_price_increase = 0
        /\ N > 0 =>
             /\ 2 * (N * result.impacts.average_product_price_increase - total) <= N
             /\ 2 * (total - N * result.impacts.average_product_price_increase) <= N
             /\ \E i \in 1..N : pct(i) = result.impacts.max_product_price_increase
             /\ \E i \in 1..N : pct(i) = result.impacts.min_product_price_increase
             /\ \A i \in 1..N : /\ pct(i) <= result.impacts.max_product_price_increase
                                /\ pct(i) >= result.impacts.min_product_price_increase
        /\ (/\ N = 1 /\ t = 25 /\ Len(products[1].affected_components) = 1
            /\ CriticalCount(products[1]) = 1)
             => result.impacts.average_product_price_increase = 500

\* a product with six critical components is capped at t = 25 while a second
\* product with one component is not
C15_Witness ==
  /\ call.op = "calculate_price_impacts"
  /\ call.args[3] = 25
  /\ Len(result.products) = 2
  /\ CriticalCount(result.products[1]) >= 6
  /\ result.products[1].estimated_price_increase_percentage = 2500
  /\ result.products[2].estimated_price_increase_percentage = 500
  /\ result.impacts.average_product_price_increase = 1500

\* C16: for a graph with at least one product calculate_resilience_score
\* returns a total and factor scores within [0, 100], and the returned
\* risk_level agrees with the returned score (rounded to one decimal): low iff
\* score >= 80, medium iff 60 <= score < 80, high iff score < 60.
\* (Scores in tenths.)
C16_ScoreRangeAndRiskLevel ==
  (/\ call.op = "calculate_resilience_score"
   /\ ProductsToAnalyze(heap["orig"], call.args[1]) # <<>>) =>
    /\ result.total_resilience_score >= 0
    /\ result.total_resilience_score <= 1000
    /\ \A f \in DOMAIN result.factors :
         result.factors[f].score >= 0 /\ result.factors[f].score <= 1000
    /\ result.risk_level = "low" <=> result.total_resilience_score >= 800
    /\ result.risk_level = "medium" <=> (/\ result.total_resilience_score >= 600
                                         /\ result.total_resilience_score < 800)
    /\ result.risk_level = "high" <=> result.total_resilience_score < 600

\* the components the scenario results handed to combine_scenarios list
InputIds(scenarios) == UNION {AffectedIds(scenarios[i]) : i \in 1..Len(scenarios)}

\* C17: the affected_components combine_scenarios returns are the union of
\* the components affected by the input scenarios: every listed component is
\* listed by some input, and every component an input lists (a complete
\* supplier disruption included) is listed.
C17_CombinedIsUnion ==
  call.op = "combine_scenarios" =>
    {result.affected_components[i].component_id : i \in 1..Len(result.affected_components)}
      = InputIds(call.args[1])

\* C18: model_supplier_disruption changes the working copy only as follows:
\* level complete removes exactly the SUPPLIES edges leaving supplier_id
\* (nodes, other edges and node attributes unchanged; supplier_id has no
\* SUPPLIES out-edge afterwards); level partial sets supply_constrained on
\* exactly the components supplier_id supplies and removes no edge.
C18_DisruptionFrame ==
  call.op = "model_supplier_disruption" =>
    LET O == heap[modeler.original_graph]
        G == heap[modeler.graph]
        leaving == {e \in O.supplies : e[1] = call.args[1]}
    IN  /\ modeler.graph # modeler.original_graph
        /\ call.args[2] = "complete" =>
             /\ G = [O EXCEPT !.supplies = O.supplies \ leaving]
             /\ ~ \E e \in G.supplies : e[1] = call.args[1]
        /\ call.args[2] = "partial" =>
             /\ G = [O EXCEPT !.supply_constrained =
                                [c \in DOMAIN O.supply_constrained |->
                                   O.supply_constrained[c] \/ \E e \in leaving : e[2] = c]]
             /\ G.supplies = O.supplies

\* a complete disruption of a supplier of two components has removed both
\* edges from the working copy
C18_Witness ==
  /\ call.op = "model_supplier_disruption"
  /\ call.args[2] = "complete"
  /\ Cardinality({e \in heap[modeler.original_graph].supplies : e[1] = call.args[1]}) = 2
  /\ Cardinality(heap[modeler.graph].supplies)
       = Cardinality(heap[modeler.original_graph].supplies) - 2

\* C19: every component model_tariff_change or model_geopolitical_event
\* reports in affected_components is in use (has an incoming CONTAINS edge);
\* a component from the given country that no product contains is neither
\* reported nor flagged.
C19_OnlyInUseComponents ==
  call.op \in {"model_tariff_change", "model_geopolitical_event"} =>
    LET O == heap[modeler.original_graph]
        inUse(c) == \E e \in O.contains : e[2] = c
    IN  /\ \A c \in AffectedIds(result) : inUse(c)
        /\ \A c \in Components \cap O.nodes :
             ~inUse(c) =>
               /\ heap[modeler.graph].tariff_vulnerable[c] = O.tariff_vulnerable[c]
               /\ heap[modeler.graph].affected_by_event[c] = O.affected_by_event[c]

\* the country_concentration entries of a result for one country
CountryEntries(r, country) ==
  {i \in 1..Len(r.country_concentration) : r.country_concentration[i].country = country}

\* C20: identify_geographical_concentration counts for each country exactly
\* the in-use components with an ORIGINATES_FROM edge to it (a component with
\* several origins once under each); risk_level is high iff the critical count
\* is > 5, medium iff it is 3..5, else low; country_concentration is ordered by
\* non-increasing concentration_score and highest_concentration is its first
\* element (none when it is empty).
C20_GeographicalConcentration ==
  call.op = "identify_geographical_concentration" =>
    LET G == heap["orig"]
        cc == result.country_concentration
        inUse(c) == \E e \in G.contains : e[2] = c
        from(k) == {c \in Components \cap G.nodes : inUse(c) /\ <<c, k>> \in G.originates}
    IN  /\ \A k \in CountryIds :
             /\ Cardinality(CountryEntries(result, CountryName(k)))
                  = IF from(k) = {} THEN 0 ELSE 1
             /\ \A i \in CountryEntries(result, CountryName(k)) :
                  /\ cc[i].total_components = Cardinality(from(k))
                  /\ cc[i].critical_components = Cardinality({c \in from(k) : G.critical[c]})
        /\ \A i \in 1..Len(cc) :
             /\ cc[i].risk_level = "high" <=> cc[i].critical_components > 5
             /\ cc[i].risk_level = "medium" <=> cc[i].critical_components \in 3..5
             /\ cc[i].risk_level = "low" <=> cc[i].critical_components < 3
        /\ \A i, j \in 1..Len(cc) :
             i < j => cc[i].concentration_score >= cc[j].concentration_score
        /\ result.highest_concentration = Take(cc, 1)

\* the lead-time increases a disruption result holds for the critical
\* affected components of its i-th product
CriticalLeadTimes(r, i) ==
  LET p == r.affected_products[i]
  IN  { r.affected_components[j].estimated_lead_time_increase_weeks :
          j \in { j \in 1..Len(r.affected_components) :
                    \E k \in 1..Len(p.affected_components) :
                      /\ p.affected_components[k].critical
                      /\ p.affected_components[k].component_id
                           = r.affected_components[j].component_id } }

\* C21: a product's estimated_lead_time_increase_weeks is the maximum
\* estimated lead-time increase among its critical affected components, 0 when
\* none of them is critical, whatever the severity and the duration; the
\* average over an empty product list is 0.
C21_ProductLeadTime ==
  (call.op = "model_supplier_disruption" /\ "lead_time_impacts" \in DOMAIN result) =>
    /\ \A i \in 1..Len(result.affected_products) :
         LET weeks == result.affected_products[i].estimated_lead_time_increase_weeks
             leads == CriticalLeadTimes(result, i)
         IN  IF leads = {} THEN weeks = 0
             ELSE weeks \in leads /\ \A w \in leads : w <= weeks
    /\ result.affected_products = <<>> =>
         result.lead_time_impacts.average_lead_time_increase_weeks = 0

\* a disruption that delays a non-critical component of one product (whose
\* lead time stays 0) and a critical component of another
C21_Witness ==
  /\ call.op = "model_supplier_disruption"
  /\ "lead_time_impacts" \in DOMAIN result
  /\ \E i, j \in 1..Len(result.affected_products) :
       /\ result.affected_products[i].estimated_lead_time_increase_weeks > 0
       /\ result.affected_products[j].estimated_lead_time_increase_weeks = 0
  /\ \A j \in 1..Len(result.affected_components) :
       result.affected_components[j].estimated_lead_time_increase_weeks > 0

(***************************************************************************)
(* calculate_product_impacts and calculate_shortage_product_impacts on     *)
(* bounded inputs (SpecImpacts)                                            *)
(***************************************************************************)
ImpactIds == <<"c1", "c2", "c3">>

\* affected components as model_geopolitical_event builds them, one per
\* listed id; values in tenths
EventComponents(listed) ==
  LET ids == OrderedSeq(listed, ImpactIds)
  IN  [i \in 1..Len(ids) |-> [component_id |-> ids[i],
                              lead_time_impact |-> 40,
                              availability_impact |-> 300,
                              cost_impact |-> 60]]

\* affected components as model_component_shortage builds them
ShortageComponents(listed) ==
  LET ids == OrderedSeq(listed, ImpactIds)
  IN  [i \in 1..Len(ids) |-> [component_id |-> ids[i],
                              lead_time_increase_weeks |-> 40,
                              price_increase_percent |-> 250,
                              allocation_reduction_percent |-> 200]]

\* a product record whose affected_components are the given ids
ImpactProduct(product_id, entries, critical) ==
  LET ids == OrderedSeq(entries, ImpactIds)
  IN  [product_id |-> product_id,
       manufacturer_id |-> "co1",
       affected_components_count |-> Len(ids),
       critical_components_count |-> Cardinality(entries \cap critical),
       impact_score |-> Len(ids) + Cardinality(entries \cap critical),
       affected_components |-> [i \in 1..Len(ids) |-> [component_id |-> ids[i],
                                                       critical |-> ids[i] \in critical]]]

\* <<affected_products, listed ids>>: the components on the product need not
\* be among the listed ones
ImpactInputs ==
  {<<<<>>, listed>> : listed \in SUBSET Range(ImpactIds)}
    \cup {<<<<ImpactProduct("p1", entries, critical)>>, listed>> :
            entries \in SUBSET Range(ImpactIds), critical \in {{}, {"c1"}},
            listed \in SUBSET Range(ImpactIds)}

InitImpacts ==
  /\ \E W \in {Fresh(Graph({}, {}, {}, {}, {}, FALSE, FALSE, FALSE, FALSE), FALSE)} :
       heap = W.heap /\ modeler = W.m
  /\ \E args \in ImpactInputs : call = Call("input", args)
  /\ result = NoResult
  /\ InitPar0

CalculateProductImpacts ==
  /\ call.op = "input"
  /\ call' = Call("calculate_product_impacts", <<call.args[1], EventComponents(call.args[2])>>)
  /\ result' = calculate_product_impacts(call.args[1], EventComponents(call.args[2]))
  /\ UNCHANGED <<heap, modeler>>
  /\ UNCHANGED parVars

CalculateShortageProductImpacts ==
  /\ call.op = "input"
  /\ call' = Call("calculate_shortage_product_impacts",
                  <<call.args[1], ShortageComponents(call.args[2])>>)
  /\ result' = calculate_shortage_product_impacts(call.args[1], ShortageComponents(call.args[2]))
  /\ UNCHANGED <<heap, modeler>>
  /\ UNCHANGED parVars

NextImpacts ==
  \/ CalculateProductImpacts
  \/ CalculateShortageProductImpacts

SpecImpacts == InitImpacts /\ [][NextImpacts]_vars

\* the sum of 4.0 weeks * (1.5 if critical else 1.0) over the entries of the
\* product that match a listed component (tenths * tenths)
LeadTimeSum(product, affected_components) ==
  LET matched == {k \in 1..Len(product.affected_components) :
                    \E j \in 1..Len(affected_components) :
                      affected_components[j].component_id
                        = product.affected_components[k].component_id}
      crit == {k \in matched : product.affected_components[k].critical}
  IN  40 * 15 * Cardinality(crit) + 40 * 10 * Cardinality(matched \ crit)

\* C22: calculate_product_impacts and calculate_shortage_product_impacts both
\* divide a product's summed impacts by the number of entries of
\* product['affected_components'] (at least 1), not by the number of entries
\* that match the affected_components argument: an entry without a match adds
\* nothing to the sum and still counts in the denominator.
C22_NormalizedByTotalCount ==
  call.op \in {"calculate_product_impacts", "calculate_shortage_product_impacts"} =>
    \A i \in 1..Len(result.products) :
      LET product == call.args[1][i]
          total == IF Len(product.affected_components) > 0
                   THEN Len(product.affected_components) ELSE 1
      IN  result.products[i].lead_time_increase_weeks
            = RoundDiv(LeadTimeSum(product, call.args[2]), 10 * total)

\* the actions of a result's recommendations, in order
ActionsOf(r) == [i \in 1..Len(r.recommendations) |-> r.recommendations[i].action]

\* C23: a tariff scenario with at least one affected component recommends, in
\* this order, relocate_sourcing (always), strategic_pricing (iff some affected
\* product's estimated price increase percentage is > 2), tariff_exemptions
\* (always) and product_redesign (iff some critical affected component has an
\* estimated price increase > 3).
C23_TariffRecommendations ==
  (call.op = "model_tariff_change" /\ result.affected_components # <<>>) =>
    LET G == heap[modeler.original_graph]
        pricing == \E i \in 1..Len(result.affected_products) :
                     result.affected_products[i].estimated_price_increase_percentage > 200
        redesign == \E i \in 1..Len(result.affected_components) :
                      /\ G.critical[result.affected_components[i].component_id]
                      /\ result.affected_components[i].estimated_price_increase > 300
    IN  ActionsOf(result)
          = <<"relocate_sourcing">>
              \o (IF pricing THEN <<"strategic_pricing">> ELSE <<>>)
              \o <<"tariff_exemptions">>
              \o (IF redesign THEN <<"product_redesign">> ELSE <<>>)

\* the copy a scenario call has scored when it returns: the working copy with
\* every mutation of the call applied (the engines of the geopolitical and
\* shortage calls set their flags on a deep copy of it)
MutatedCopy ==
  LET G == heap[modeler.graph]
      ids == AffectedIds(result)
  IN  CASE call.op = "model_geopolitical_event" ->
             [G EXCEPT !.affected_by_event = SetFlags(@, ids, TRUE),
                       !.event_impact_level = SetFlags(@, ids, call.args[3])]
        [] call.op = "model_component_shortage" ->
             [G EXCEPT !.affected_by_shortage = SetFlags(@, ids, TRUE),
                       !.shortage_level = SetFlags(@, ids, call.args[2])]
        [] OTHER -> G

\* the recommendations the rules give on the components and products as the
\* call returns them
RecommendationsOnReturned ==
  CASE call.op = "model_tariff_change" ->
         generate_tariff_recommendations(result.affected_components, result.affected_products)
    [] call.op = "model_supplier_disruption" ->
         generate_disruption_recommendations(result.affected_components, result.affected_products,
                                             call.args[2], call.args[3])
    [] call.op = "model_geopolitical_event" ->
         generate_geopolitical_recommendations(call.args[2], call.args[3], call.args[4],
                                               result.affected_components,
                                               result.affected_products)
    [] call.op = "model_component_shortage" ->
         generate_shortage_recommendations(call.args[2], call.args[3],
                                           result.affected_components, result.affected_products)

\* C24: within each scenario call the resilience is re-scored after every
\* mutation of the call, on the mutated copy, and the recommendations are
\* generated after the product-level impacts of the call, so the rules see the
\* per-product fields computed in that call.
C24_StepsInOrder ==
  (/\ call.op \in {"model_tariff_change", "model_supplier_disruption",
                   "model_geopolitical_event", "model_component_shortage"}
   /\ "recommendations" \in DOMAIN result
   /\ result.affected_components # <<>>) =>
    /\ result.resilience_impact.after
         = calculate_resilience_score(MutatedCopy, NoneId).total_resilience_score
    /\ result.recommendations = RecommendationsOnReturned

\* a tariff call whose flags lower the score and whose strategic_pricing rule
\* fired on a product's price increase
C24_Witness ==
  /\ call.op = "model_tariff_change"
  /\ result.affected_components # <<>>
  /\ result.resilience_impact.after < result.resilience_impact.before
  /\ \E i \in 1..Len(result.recommendations) :
       result.recommendations[i].action = "strategic_pricing"

\* the products with a CONTAINS edge to a component listed in result r
ProductsHit(G, r) ==
  {p \in G.nodes : \E c \in AffectedIds(r) : <<p, c>> \in G.contains}

\* C25: find_affected_products, given affected components with distinct ids,
\* returns exactly one record for each product with a CONTAINS edge to at
\* least one of them and none for other products; a record's
\* affected_components are exactly the listed components the product contains,
\* its impact_score is affected_components_count + critical_components_count
\* (2 per critical, 1 per other component), and the list is ordered by
\* non-increasing impact_score.
C25_AffectedProducts ==
  (/\ call.op \in {"model_tariff_change", "model_supplier_disruption",
                   "model_geopolitical_event", "model_component_shortage"}
   /\ "affected_products_count" \in DOMAIN result) =>
    LET G == heap[modeler.graph]
        products == result.affected_products
        ids(p) == {p.affected_components[k].component_id : k \in 1..Len(p.affected_components)}
        crit(p) == {k \in 1..Len(p.affected_components) : p.affected_components[k].critical}
    IN  /\ {products[i].product_id : i \in 1..Len(products)} = ProductsHit(G, result)
        /\ Len(products) = Cardinality(ProductsHit(G, result))
        /\ \A i \in 1..Len(products) :
             /\ ids(products[i])
                  = {c \in AffectedIds(result) : <<products[i].product_id, c>> \in G.contains}
             /\ Len(products[i].affected_components) = Cardinality(ids(products[i]))
             /\ \A k \in 1..Len(products[i].affected_components) :
                  products[i].affected_components[k].critical
                    = G.critical[products[i].affected_components[k].component_id]
             /\ products[i].affected_components_count = Len(products[i].affected_components)
             /\ products[i].critical_components_count = Cardinality(crit(products[i]))
             /\ products[i].impact_score
                  = products[i].affected_components_count + products[i].critical_components_count
        /\ \A i, j \in 1..Len(products) :
             i < j => products[i].impact_score >= products[j].impact_score

\* two products returned in the reverse of the order they were found in: p2
\* is reached first, through c1, and p1 has the higher impact score
C25_Witness ==
  /\ call.op = "model_supplier_disruption"
  /\ "affected_products_count" \in DOMAIN result
  /\ Len(result.affected_products) = 2
  /\ result.affected_components[1].component_id = "c1"
  /\ <<"p1", "c1">> \notin heap[modeler.graph].contains
  /\ result.affected_products[1].product_id = "p1"
  /\ result.affected_products[1].impact_score > result.affected_products[2].impact_score

\* C26: simulated disruptions never improve resilience: the results of
\* model_tariff_change, of model_supplier_disruption with level 'complete' and
\* of combine_scenarios have resilience_impact.after <= before (change <= 0),
\* the modeler's baseline being computed on a graph equal to the original.
C26_NeverImproves ==
  (/\ \/ call.op \in {"model_tariff_change", "combine_scenarios"}
      \/ call.op = "model_supplier_disruption" /\ call.args[2] = "complete"
   /\ "resilience_impact" \in DOMAIN result
   /\ modeler.base_resilience
        = calculate_resilience_score(heap[modeler.original_graph], NoneId)) =>
    /\ result.resilience_impact.after <= result.resilience_impact.before
    /\ result.resilience_impact.change <= 0

\* a complete disruption that lowers the score
C26_Witness ==
  /\ call.op = "model_supplier_disruption"
  /\ call.args[2] = "complete"
  /\ "resilience_impact" \in DOMAIN result
  /\ modeler.base_resilience
       = calculate_resilience_score(heap[modeler.original_graph], NoneId)
  /\ result.resilience_impact.after < result.resilience_impact.before

\* the level determine_overall_impact gives a geopolitical result when the
\* resilience drop is 0
LevelWithoutDrop(r) ==
  determine_overall_impact(0, 0,
    [average_lead_time_increase |-> r.impact_assessment.lead_time,
     average_availability_decrease |-> r.impact_assessment.availability,
     average_cost_increase |-> r.impact_assessment.cost])

\* C27: scenarios that only set transient flags leave the score unchanged: in
\* every result of model_supplier_disruption with level 'partial',
\* model_geopolitical_event and model_component_shortage, in any call
\* sequence, resilience_impact.after = before (change = 0); hence the
\* resilience-drop criterion of determine_overall_impact never decides a
\* geopolitical result.
C27_FlagsLeaveScoreUnchanged ==
  (/\ \/ call.op \in {"model_geopolitical_event", "model_component_shortage"}
      \/ call.op = "model_supplier_disruption" /\ call.args[2] = "partial"
   /\ "resilience_impact" \in DOMAIN result) =>
    /\ result.resilience_impact.after = result.resilience_impact.before
    /\ result.resilience_impact.change = 0
    /\ call.op = "model_geopolitical_event" =>
         result.impact_assessment.overall_impact_level = LevelWithoutDrop(result)

\* a partial disruption that flags a component, made after a call that left
\* its own changes in the working copy
C27_Witness ==
  /\ call.op = "model_supplier_disruption"
  /\ call.args[2] = "partial"
  /\ "resilience_impact" \in DOMAIN result
  /\ \E c \in AffectedIds(result) : heap[modeler.graph].supply_constrained[c]
  /\ result.resilience_impact.before > 0

\* the single_supplier records detect_single_points_of_failure gives for c
SingleSupplierRecords(G, c) ==
  RecordsOf(detect_single_points_of_failure(G), "single_supplier", c)

\* the (product, component) CONTAINS pairs of G whose component has n suppliers
PairsWithSuppliers(G, n) ==
  {e \in G.contains : e[1] \in Products /\ Cardinality(SuppliersOf(G, e[2])) = n}

\* C28: the single_supplier_components metric of calculate_resilience_score
\* counts the CONTAINS pairs whose component has at most one supplier, zero
\* included, so a component whose only supplier a 'complete' disruption
\* removed is still counted after re-scoring, while
\* detect_single_points_of_failure on the same mutated graph reports
\* single_supplier only for exactly one supplier and no longer reports it.
C28_SingleSupplierMetric ==
  call.op \in ScenarioOps =>
    LET G == heap[modeler.analyzer]
        O == heap[modeler.original_graph]
        metrics == calculate_resilience_score(G, NoneId).metrics
    IN  /\ metrics.single_supplier_components
             = Cardinality(PairsWithSuppliers(G, 0)) + Cardinality(PairsWithSuppliers(G, 1))
        /\ \A c \in Components \cap G.nodes :
             SingleSupplierRecords(G, c) # {}
               <=> Cardinality(SuppliersOf(G, c)) = 1 /\ ProductsUsing(G, c) # <<>>
        /\ (call.op = "model_supplier_disruption" /\ call.args[2] = "complete") =>
             \A e \in O.contains :
               SuppliersOf(O, e[2]) = {call.args[1]} =>
                 /\ e \in PairsWithSuppliers(G, 0)
                 /\ SingleSupplierRecords(O, e[2]) # {}
                 /\ SingleSupplierRecords(G, e[2]) = {}

\* a complete disruption has removed the only supplier of a component in use:
\* the metric still counts its pairs and the single_supplier record is gone
C28_Witness ==
  /\ call.op = "model_supplier_disruption"
  /\ call.args[2] = "complete"
  /\ modeler.analyzer = modeler.graph
  /\ \E e \in heap[modeler.original_graph].contains :
       /\ SuppliersOf(heap[modeler.original_graph], e[2]) = {call.args[1]}
       /\ e \in PairsWithSuppliers(heap[modeler.graph], 0)
       /\ SingleSupplierRecords(heap[modeler.graph], e[2]) = {}
  /\ calculate_resilience_score(heap[modeler.graph], NoneId).metrics.single_supplier_components
       = calculate_resilience_score(heap[modeler.original_graph], NoneId).metrics.single_supplier_components

\* the shortage result r applies one level throughout: the components carry
\* the allocation reduction of severity factor `factor` (40 * factor, times
\* 1.2 when critical; tenths) and the allocation strategy holds the given
\* supply and tier percentages
ShortageAtLevel(r, factor, supply, tier1, tier2, tier3) ==
  /\ \A i \in 1..Len(r.affected_components) :
       r.affected_components[i].allocation_reduction_percent
         = RoundDiv(factor * (IF r.affected_components[i].critical THEN 12 ELSE 10) * 40, 10)
  /\ r.allocation_strategy.available_supply_percent = supply
  /\ r.allocation_strategy.allocation_percentages
       = [tier1 |-> tier1, tier2 |-> tier2, tier3 |-> tier3]

\* C29: for every shortage_level string, also one that is neither 'moderate'
\* nor 'severe', the severity factor applied to the components and the
\* allocation strategy belong to the same level: moderate (factor 0.5, supply
\* 70, tiers 90/70/50) or severe (factor 0.8, supply 50, tiers 80/50/30), never
\* a mixture.
C29_ShortageLevelConsistent ==
  call.op = "model_component_shortage" =>
    \/ ShortageAtLevel(result, 5, 70, 90, 70, 50)
    \/ ShortageAtLevel(result, 8, 50, 80, 50, 30)

\* what combine_scenarios returns for the two scenarios of the call in the
\* other order
CombinedReversed ==
  FreshResult(heap["orig"],
              Call("combine_scenarios", <<<<call.args[1][2], call.args[1][1]>>>>))

\* C30: combine_scenarios does not depend on the order of its input list: the
\* combined resilience_impact, the set of affected component ids and every
\* affected component's impact_sources are the same for every permutation,
\* also when two geopolitical results of different severity or two shortage
\* results of different level touch the same component.
C30_CombineOrderIndependent ==
  (call.op = "combine_scenarios" /\ Len(call.args[1]) = 2) =>
    /\ result.resilience_impact = CombinedReversed.resilience_impact
    /\ AffectedIds(result) = AffectedIds(CombinedReversed)
    /\ \A i \in 1..Len(result.affected_components) :
         \A j \in 1..Len(CombinedReversed.affected_components) :
           result.affected_components[i].component_id
               = CombinedReversed.affected_components[j].component_id
             => result.affected_components[i].impact_sources
                  = CombinedReversed.affected_components[j].impact_sources

====
